---- MODULE Spec2Model ----
(***************************************************************************)
(* A model of scarlet's deblender (src/scarlet/deblender.py): the Source   *)
(* bookkeeping (component count, centroid, bounding box) and the Blend     *)
(* fitting loop (set_data, fit, step and the two callbacks _steps_f and    *)
(* _prox_f that the block solver proxmin.algorithms.bsdmm calls once per   *)
(* block and sweep, with the position update they trigger).                *)
(*                                                                         *)
(* Conventions                                                             *)
(*  - A Python attribute that may be missing, or may be None, is a         *)
(*    sequence: <<>> is "missing / None", <<v>> is the value v.            *)
(*  - Coordinates are fixed-point: one pixel is Unit coordinate steps, so  *)
(*    floor(y) is y \div Unit and the fractional offset is y % Unit.       *)
(*  - An exception is the field exc of an operator's result: "" is a       *)
(*    normal return, anything else the name of the exception raised; the   *)
(*    other fields are the state the exception leaves behind.              *)
(*  - Python indices are 0-based, sequences here 1-based: block j, flat    *)
(*    component k, source m and local component l keep their 0-based       *)
(*    Python values and are shifted by one only where a sequence is read.  *)
(***************************************************************************)
EXTENDS Integers, Sequences, FiniteSets, TLC

\* ------------------------------------------------------------------ bounds
\* coordinate steps per pixel
Unit == 2
\* image height and width in pixels
ImgNY == 2
ImgNX == 2
\* cap on the iteration counter Blend.it
MaxIt == 11
\* how many pixels beyond the image a centroid may be placed
Reach == 3
\* bands of the image init_source reads, and the largest pixel value
NBands == 2
MaxPix == 2

\* ------------------------------------------------------ program constants
\* Blend.center_min_dist = 1e-3, as its reciprocal
center_min_dist_inv == 1000
center_wait == 10
center_skip == 10

Max(a, b) == IF a >= b THEN a ELSE b
Min(a, b) == IF a <= b THEN a ELSE b

RECURSIVE SumSeq(_)
SumSeq(s) == IF s = <<>> THEN 0 ELSE Head(s) + SumSeq(Tail(s))

\* range(a, b) of Python 2: the list a, a+1, .., b-1
range(a, b) == [i \in 1..Max(0, b - a) |-> a + i - 1]

\* ================================================================== Source
\* A Source is a record
\*   sedRows, morphRows : rows of the SED / morphology array, 0 when the
\*                        attribute is np.copy(None) (a 0-d array)
\*   y, x               : centroid, in coordinate steps
\*   left, right, bottom, top : the box, in pixels
\*   bb                 : the image slices of the box, as
\*                        << <<y start, y stop>>, <<x start, x stop>> >>
\*   Gamma              : the offsets (dy, dx) the translation operator was
\*                        built for, in coordinate steps
\*   shift_center       : truthiness of the shift_center argument
\*   fix_sed, fix_morph : the per-component flag lists (truth values)
\*   constraints        : <<>> for None, << keys >> for a dict whose keys()
\*                        lists keys
\*   prox_morph         : per component, the chain of projections
\*   proxs_g, Ls        : the pairs [None, None] or [None, list]; the entry
\*                        of Ls for the operator None is <<>>

\* Source.__len__ / Source.K
SourceK(s) ==
    IF s.sedRows > 0 THEN s.sedRows
    ELSE IF s.morphRows > 0 THEN s.morphRows
    ELSE 1

Nx(s) == s.right - s.left
Ny(s) == s.top - s.bottom

\* Source.center_int: (floor(y), floor(x))
center_int(s) == << s.y \div Unit, s.x \div Unit >>

\* a variant of set_center_size whose right and top edges lack the + 1
set_center_size_mutant(s, center, size) ==
    LET y_ == center[1] \div Unit
        x_ == center[2] \div Unit
    IN  [s EXCEPT !.y = center[1], !.x = center[2],
                  !.left = x_ - (size[1] \div 2),
                  !.right = x_ + (size[1] \div 2),
                  !.bottom = y_ - (size[2] \div 2),
                  !.top = y_ + (size[2] \div 2),
                  !.bb = << << Max(0, y_ - (size[2] \div 2)), y_ + (size[2] \div 2) >>,
                            << Max(0, x_ - (size[1] \div 2)), x_ + (size[1] \div 2) >> >>,
                  !.Gamma = << center[1] - y_ * Unit, center[2] - x_ * Unit >>]

\* Source.set_center(center, size) with an explicit size: size[1] and
\* size[2] are size[0] and size[1] of the code
set_center_size(s, center, size) ==
    LET y_ == center[1] \div Unit
        x_ == center[2] \div Unit
        left == x_ - (size[1] \div 2)
        right == x_ + (size[1] \div 2) + 1
        bottom == y_ - (size[2] \div 2)
        top == y_ + (size[2] \div 2) + 1
    IN  [s EXCEPT !.y = center[1], !.x = center[2],
                  !.left = left, !.right = right,
                  !.bottom = bottom, !.top = top,
                  !.bb = << << Max(0, bottom), top >>, << Max(0, left), right >> >>,
                  !.Gamma = << center[1] - y_ * Unit, center[2] - x_ * Unit >>]

\* Source.set_center(center): size defaults to (Ny, Nx)
set_center(s, center) == set_center_size(s, center, << Ny(s), Nx(s) >>)

\* numpy's a[start:stop] on an axis of length n: a negative bound counts
\* from the end, then both bounds are clipped to 0..n
slice_bound(i, n) == IF i < 0 THEN Max(0, i + n) ELSE Min(i, n)
\* the indices the slice sl = <<start, stop>> selects, in order
slice_indices(sl, n) == range(slice_bound(sl[1], n), slice_bound(sl[2], n))

\* Source.get_slice_for(im_shape), im_shape = <<NY, NX>> (the band axis is
\* left out): the slices of the source's own Ny x Nx frame
get_slice_for(s, im_shape) ==
    LET left == Max(0, - s.left)
        bottom == Max(0, - s.bottom)
        right == Nx(s) - Max(0, s.right - im_shape[2])
        top == Ny(s) - Max(0, s.top - im_shape[1])
    IN  << << bottom, top >>, << left, right >> >>

\* the pixels image[self.bb] and model[self.get_slice_for(image.shape)]
\* select: img = <<rows, columns>> of the image, src = <<rows, columns>> of
\* the source frame
box_selection(s, im_shape) ==
    LET sl == get_slice_for(s, im_shape)
    IN  [img |-> << slice_indices(s.bb[1], im_shape[1]),
                    slice_indices(s.bb[2], im_shape[2]) >>,
         src |-> << slice_indices(sl[1], Ny(s)), slice_indices(sl[2], Nx(s)) >>]

\* numpy lets an array of extent Len(S) be assigned or added to a selection
\* of extent Len(T) when the extents agree or the array's extent is 1
broadcasts(S, T) == Len(S) = Len(T) \/ Len(S) = 1

\* target[s.bb] = model[s.get_slice_for(shape)] (add FALSE) or
\* target[s.bb] += model[..] (add TRUE): the new target, or the ValueError
\* of shapes that do not broadcast. Images are functions of <<row, column>>.
paste(target, s, model, im_shape, add) ==
    LET sel == box_selection(s, im_shape)
        Ty == sel.img[1]
        Tx == sel.img[2]
        Sy == sel.src[1]
        Sx == sel.src[2]
        at(S, T, i) == IF Len(S) = Len(T) THEN S[i - T[1] + 1] ELSE S[1]
        hit(p) == /\ \E i \in 1..Len(Ty) : Ty[i] = p[1]
                  /\ \E i \in 1..Len(Tx) : Tx[i] = p[2]
    IN  IF ~ (broadcasts(Sy, Ty) /\ broadcasts(Sx, Tx))
        THEN [exc |-> "ValueError", val |-> target]
        ELSE [exc |-> "",
              val |-> [p \in DOMAIN target |->
                         IF hit(p)
                         THEN (IF add THEN target[p] ELSE 0)
                                + model[<< at(Sy, Ty, p[1]), at(Sx, Tx, p[2]) >>]
                         ELSE target[p]]]

\* the pixel-wise sum of a sequence of images over the domain of zero
RECURSIVE SumImages(_, _)
SumImages(imgs, zero) ==
    IF imgs = <<>> THEN zero
    ELSE LET rest == SumImages(Tail(imgs), zero)
         IN  [p \in DOMAIN zero |-> Head(imgs)[p] + rest[p]]

\* np.zeros of an image shape <<NY, NX>>
zeros(shape) == [p \in (0..(shape[1] - 1)) \X (0..(shape[2] - 1)) |-> 0]

\* Source.get_model(combine), one band: the sequence of the K component
\* images sed[l] * morph[l] reshaped to Ny x Nx, or their sum alone when
\* combine. sed holds the K SED values; the morphology row is the ramp
\* 1, 2, .., Ny*Nx and Gamma is taken as the identity.
Source_get_model(s, sed, combine) ==
    LET frame == zeros(<< Ny(s), Nx(s) >>)
        comps == [l \in 1..SourceK(s) |->
                    [p \in DOMAIN frame |-> sed[l] * (p[1] * Nx(s) + p[2] + 1)]]
    IN  IF combine THEN << SumImages(comps, frame) >> ELSE comps

RECURSIVE Product(_)
Product(q) == IF q = <<>> THEN 1 ELSE Head(q) * Product(Tail(q))

\* A fix_sed / fix_morph argument is [iter, val]: iter tells whether it has
\* __iter__ (a list), val is the list of flags, or << f >> for the single
\* flag f.
scalar_flag(f) == [iter |-> FALSE, val |-> << f >>]

\* lines 222-225 and 237-240: the flag list of a source of K components
fix_list(fix, K) ==
    IF fix.iter /\ Len(fix.val) = K THEN fix.val
    ELSE [l \in 1..K |-> IF fix.iter THEN Len(fix.val) > 0 ELSE fix.val[1]]

\* the keys of a constraints argument
constraint_keys(constraints) ==
    IF constraints = <<>> THEN {}
    ELSE { constraints[1][i] : i \in 1..Len(constraints[1]) }

\* Source._set_morph_prox without a prox_morph argument: line 250 builds the
\* K entries from one shared list, so that every append of the loops over k
\* lands in every entry
_set_morph_prox(constraints, K) ==
    LET keys == constraint_keys(constraints)
        thresh == IF "l0" \in keys THEN [k \in 1..K |-> "prox_hard"]
                  ELSE IF "l1" \in keys THEN [k \in 1..K |-> "prox_soft"]
                  ELSE <<>>
        mono == IF "m" \in keys THEN [k \in 1..K |-> "prox_strict_monotonic"]
                ELSE <<>>
    IN  [k \in 1..K |-> << "prox_plus" >> \o thresh \o mono]

\* the loop of Source._set_constraints over the keys, in their order
RECURSIVE set_constraints_from(_, _)
set_constraints_from(keys, acc) ==
    IF keys = <<>> THEN acc
    ELSE LET c == Head(keys)
             both(L, prox) == [Ls |-> Append(acc.Ls, L),
                               proxs_g |-> Append(acc.proxs_g, prox)]
         IN  set_constraints_from(Tail(keys),
                 IF c = "M" THEN both(<< "getRadialMonotonicOp" >>, "prox_plus")
                 ELSE IF c = "S" THEN both(<< "getSymmetryOp" >>, "prox_zero")
                 ELSE IF c = "c" THEN both(<<>>, "prox_cone")
                 ELSE IF c = "X" THEN both(<< "get_gradient_x" >>, "prox_plus")
                 ELSE IF c = "x" THEN both(<< "get_gradient_x" >>, "prox_soft")
                 ELSE IF c = "Y" THEN both(<< "get_gradient_y" >>, "prox_plus")
                 ELSE IF c = "y" THEN both(<< "get_gradient_y" >>, "prox_soft")
                 ELSE acc)

\* Source._set_constraints
_set_constraints(constraints) ==
    IF constraints = <<>>
    THEN [proxs_g |-> << <<>>, <<>> >>, Ls |-> << <<>>, <<>> >>]
    ELSE LET r == set_constraints_from(constraints[1], [Ls |-> <<>>, proxs_g |-> <<>>])
         IN  [proxs_g |-> << <<>>, << r.proxs_g >> >>, Ls |-> << <<>>, << r.Ls >> >>]

\* Source.__init__(center, size, constraints=.., sed=.., morph=.., fix_sed,
\* fix_morph, shift_center) without a psf: sed and morph are the shapes of
\* the arrays given, <<>> for None. The result is [s, exc]; no object
\* exists when exc is not "".
Source__init__args(center, size, constraints, sed, morph, fix_sed, fix_morph, shift_center) ==
    LET sedRows == IF sed = <<>> THEN 0 ELSE sed[1]
        K1 == IF sed # <<>> THEN sed[1] ELSE IF morph # <<>> THEN morph[1] ELSE 1
        fits == morph = <<>> \/ Product(morph) % K1 = 0
        s0 == [sedRows |-> sedRows,
               morphRows |-> IF morph = <<>> THEN 0 ELSE K1,
               y |-> 0, x |-> 0, left |-> 0, right |-> 0, bottom |-> 0, top |-> 0,
               bb |-> << << 0, 0 >>, << 0, 0 >> >>, Gamma |-> << 0, 0 >>,
               shift_center |-> shift_center,
               fix_sed |-> <<>>, fix_morph |-> <<>>,
               constraints |-> constraints, prox_morph |-> <<>>,
               proxs_g |-> <<>>, Ls |-> <<>>]
        s1 == set_center_size(s0, center, size)
        K0 == SourceK(s1)
        g  == _set_constraints(constraints)
    IN  IF ~ fits THEN [s |-> s0, exc |-> "ValueError"]
        ELSE [s |-> [s1 EXCEPT !.fix_sed = fix_list(fix_sed, K0),
                               !.fix_morph = fix_list(fix_morph, K0),
                               !.prox_morph = _set_morph_prox(constraints, K0),
                               !.proxs_g = g.proxs_g, !.Ls = g.Ls],
              exc |-> ""]

\* Source(center, size, sed=.., morph=.., fix_sed, fix_morph, shift_center)
\* with single flags and without constraints; k is the number of rows of
\* the sed and morph arguments, 0 when they are None.
Source__init__(center, size, k, fix_sed, fix_morph, shift_center) ==
    Source__init__args(center, size, <<>>,
                       IF k = 0 THEN <<>> ELSE << k, 1 >>,
                       IF k = 0 THEN <<>> ELSE << k, 1 >>,
                       scalar_flag(fix_sed), scalar_flag(fix_morph),
                       shift_center).s

\* proxmin.operators.prox_plus: negative entries become 0
prox_plus(v) == [i \in 1..Len(v) |-> Max(v[i], 0)]

\* proxmin.operators.prox_unity_plus(X, step): prox_plus(X) divided by its
\* sum. Entry i of the result is num[i] / den; with den = 0 every entry is
\* 0 / 0, which numpy evaluates to nan.
prox_unity_plus(v) == [num |-> prox_plus(v), den |-> SumSeq(prox_plus(v))]

\* lines 150-155 of Source.init_source: the SED row made of the pixel
\* img[:, y_, x_], given as the sequence pix of its band values
init_source_sed(pix) == prox_unity_plus(pix)

\* Source.init_source(img): reads img[:, y_, x_] (an IndexError outside the
\* image; negative indices wrap around) and replaces sed and morph by
\* one-row arrays; line 163 assigns the image inside bb to the morphology
\* inside get_slice_for (a ValueError when the two shapes do not fit).
init_source(s) ==
    LET c == center_int(s)
        inside == /\ c[1] >= -ImgNY /\ c[1] < ImgNY
                  /\ c[2] >= -ImgNX /\ c[2] < ImgNX
        sel == box_selection(s, << ImgNY, ImgNX >>)
        s1 == [s EXCEPT !.sedRows = 1, !.morphRows = 1]
    IN  IF ~ inside THEN [s |-> s, exc |-> "IndexError"]
        ELSE IF ~ (broadcasts(sel.img[1], sel.src[1]) /\ broadcasts(sel.img[2], sel.src[2]))
        THEN [s |-> s1, exc |-> "ValueError"]
        ELSE [s |-> s1, exc |-> ""]

\* =================================================================== Blend
\* A Blend is a record of the attributes of the object:
\*   M, K, _source_of, update_centers, psf_per_band : set by __init__
\*   it, _model_it, _img, update_order, step_AS, e_rel, e_abs : set by
\*       set_data; _img, update_order, e_rel and e_abs are <<>> while the
\*       attribute does not exist (it and _model_it are read only after
\*       update_order, e_rel and e_abs exist, so their values before the
\*       first set_data are never observed)
\*   scratch : whether the attribute named "_" exists
\*   _models : the number of per-component images cached by _compute_model,
\*       0 while the attributes _models and _model do not exist
\*   _diff   : whether the attribute _diff (the weighted residual) exists

\* the (m, l) pairs of sources m.., in source order then component order
RECURSIVE source_table(_, _)
source_table(ss, m) ==
    IF m > Len(ss) THEN <<>>
    ELSE [l \in 1..SourceK(ss[m]) |-> << m - 1, l - 1 >>] \o source_table(ss, m + 1)

\* Blend._register_sources
_register_sources(ss) ==
    [M |-> Len(ss),
     K |-> SumSeq([m \in 1..Len(ss) |-> SourceK(ss[m])]),
     psf_per_band |-> FALSE,
     _source_of |-> source_table(ss, 1),
     update_centers |-> \E m \in 1..Len(ss) : ss[m].shift_center]

\* Blend.__init__: _proxs_g and _Ls are collected per source, first the
\* entries for A, then those for S
Blend__init__(ss) ==
    LET r == _register_sources(ss)
    IN  [M |-> r.M, K |-> r.K, psf_per_band |-> r.psf_per_band,
         _source_of |-> r._source_of, update_centers |-> r.update_centers,
         _proxs_g |-> [m \in 1..Len(ss) |-> ss[m].proxs_g[1]]
                      \o [m \in 1..Len(ss) |-> ss[m].proxs_g[2]],
         _Ls |-> [m \in 1..Len(ss) |-> ss[m].Ls[1]]
                 \o [m \in 1..Len(ss) |-> ss[m].Ls[2]],
         it |-> 0, _model_it |-> -1, _img |-> <<>>, scratch |-> FALSE,
         update_order |-> <<>>, step_AS |-> << <<>>, <<>> >>,
         e_rel |-> <<>>, e_abs |-> <<>>, _models |-> 0, _diff |-> FALSE]

\* Blend.source_of(k)
source_of(b, k) == b._source_of[k + 1]

\* Blend.component_of(m, l): <<k>>, or <<>> for the IndexError
component_of(b, m, l) ==
    LET hits == {k \in 0..(b.K - 1) :
                    k + 1 <= Len(b._source_of) /\ b._source_of[k + 1] = << m, l >>}
    IN  IF hits = {} THEN <<>>
        ELSE << CHOOSE k \in hits : \A k2 \in hits : k <= k2 >>

\* Blend.B: the band count of _img, 0 while _img does not exist. Every
\* image of the model has one band.
BlendB(b) == IF b._img = <<>> THEN 0 ELSE 1

\* Blend.init_sources, from source m on: stops at the first exception
RECURSIVE init_sources_from(_, _, _)
init_sources_from(b, ss, m) ==
    IF m > b.M THEN [ss |-> ss, exc |-> ""]
    ELSE IF b._img = <<>> THEN [ss |-> ss, exc |-> "AttributeError"]
    ELSE LET r == init_source(ss[m])
         IN  IF r.exc # "" THEN [ss |-> ss, exc |-> r.exc]
             ELSE init_sources_from(b, [ss EXCEPT ![m] = r.s], m + 1)

init_sources(b, ss) == init_sources_from(b, ss, 1)

\* the image set_data binds: lines 402-405
bind_image(b, img, sky) ==
    IF sky = <<>>
    THEN [b EXCEPT !.scratch = TRUE]
    ELSE [b EXCEPT !._img = << img - sky[1] >>]

\* the update order set_data stores: lines 407-410
bind_update_order(update_order) ==
    IF update_order = <<>> THEN << 1, 0 >> ELSE update_order

\* Blend.set_data(img, weights=None, sky, init_sources, update_order)
set_data(b, ss, img, sky, do_init, update_order) ==
    LET b1 == [bind_image(b, img, sky) EXCEPT
                    !.it = 0, !._model_it = -1,
                    !.update_order = bind_update_order(update_order),
                    !.step_AS = << <<>>, <<>> >>]
        r  == IF do_init THEN init_sources(b1, ss) ELSE [ss |-> ss, exc |-> ""]
        b2 == [b1 EXCEPT !.e_rel = << 2 * b1.K >>]
    IN  IF r.exc # "" THEN [b |-> b1, ss |-> r.ss, exc |-> r.exc]
        ELSE IF BlendB(b2) = 0 THEN [b |-> b2, ss |-> r.ss, exc |-> "ZeroDivisionError"]
        ELSE [b |-> [b2 EXCEPT !.e_abs = << 2 * b2.K >>], ss |-> r.ss, exc |-> ""]

\* Blend.get_model works on the pixels of the images; seds[m] holds the SED
\* values of source m and im_shape the shape <<NY, NX>> of _img. A result
\* is [exc, val]: val an image, or a sequence of images for a list.

\* a variant of get_model_combined that assigns where line 446 adds
RECURSIVE get_model_combined_mutant(_, _, _, _, _, _)
get_model_combined_mutant(ss, seds, im_shape, combine_source_components, m, acc) ==
    IF m > Len(ss) THEN [exc |-> "", val |-> acc]
    ELSE LET frame == zeros(<< Ny(ss[m]), Nx(ss[m]) >>)
             model == SumImages(Source_get_model(ss[m], seds[m],
                                                  combine_source_components), frame)
             r == paste(acc, ss[m], model, im_shape, FALSE)
         IN  IF r.exc # "" THEN r
             ELSE get_model_combined_mutant(ss, seds, im_shape, combine_source_components,
                                     m + 1, r.val)

\* lines 443-447, from source m on (1-based): every source's model, summed
\* over its components when it has the component axis, is added to the
\* image acc inside the source's box
RECURSIVE get_model_combined(_, _, _, _, _, _)
get_model_combined(ss, seds, im_shape, combine_source_components, m, acc) ==
    IF m > Len(ss) THEN [exc |-> "", val |-> acc]
    ELSE LET frame == zeros(<< Ny(ss[m]), Nx(ss[m]) >>)
             model == SumImages(Source_get_model(ss[m], seds[m],
                                                  combine_source_components), frame)
             r == paste(acc, ss[m], model, im_shape, TRUE)
         IN  IF r.exc # "" THEN r
             ELSE get_model_combined(ss, seds, im_shape, combine_source_components,
                                     m + 1, r.val)

\* lines 451-458 and 463-465: each image of models is set into its own copy
\* of the zero image inside the box of source s, appended to out
RECURSIVE get_model_each(_, _, _, _)
get_model_each(s, models, im_shape, out) ==
    IF models = <<>> THEN [exc |-> "", val |-> out]
    ELSE LET r == paste(zeros(im_shape), s, Head(models), im_shape, FALSE)
         IN  IF r.exc # "" THEN [exc |-> r.exc, val |-> out]
             ELSE get_model_each(s, Tail(models), im_shape, Append(out, r.val))

\* lines 449-458, from source m on (1-based): the list of the images of
\* every source, or of every component when the sources are not combined
RECURSIVE get_model_list(_, _, _, _, _, _)
get_model_list(ss, seds, im_shape, combine_source_components, m, out) ==
    IF m > Len(ss) THEN [exc |-> "", val |-> out]
    ELSE LET r == get_model_each(ss[m],
                      Source_get_model(ss[m], seds[m], combine_source_components),
                      im_shape, out)
         IN  IF r.exc # "" THEN r
             ELSE get_model_list(ss, seds, im_shape, combine_source_components,
                                 m + 1, r.val)

\* Blend.get_model(m, combine, combine_source_components); m is <<>> for
\* None and << m0 >> for the source index m0
get_model(ss, seds, im_shape, m, combine, combine_source_components) ==
    IF m = <<>>
    THEN IF combine
         THEN get_model_combined(ss, seds, im_shape, combine_source_components,
                                 1, zeros(im_shape))
         ELSE get_model_list(ss, seds, im_shape, combine_source_components, 1, <<>>)
    ELSE LET s == ss[m[1] + 1]
             model == Source_get_model(s, seds[m[1] + 1], combine)
         IN  IF combine
             THEN paste(zeros(im_shape), s, model[1], im_shape, FALSE)
             ELSE get_model_each(s, model, im_shape, <<>>)

\* a variant of _compute_model that ignores the cache (no test of _model_it)
_compute_model_mutant(b, ss) ==
    [b |-> [b EXCEPT !._models = SumSeq([m \in 1..b.M |-> SourceK(ss[m])]),
                     !._model_it = b.it],
     computed |-> TRUE]

\* Blend._compute_model: recomputes the cached images when the cache is
\* older than the counter; computed tells whether it did.
_compute_model(b, ss) ==
    IF b._model_it < b.it
    THEN [b |-> [b EXCEPT !._models = SumSeq([m \in 1..b.M |-> SourceK(ss[m])]),
                          !._model_it = b.it],
          computed |-> TRUE]
    ELSE [b |-> b, computed |-> FALSE]

\* ---------------------------------------------------------- position update
\* The numerical input of one source's position update is a record
\*   dx, dy : the sensitivity images diff_x, diff_y of
\*            _get_shift_differential, flattened, over two sample pixels
\*   res    : the weighted residual y[bb_m] over the same pixels, in units
\*            of 1/Unit, so that the solved correction is in coordinate steps
Dot(u, v) == u[1] * v[1] + u[2] * v[2]

\* lines 612-613: the last column of diff_x and the last row of diff_y are
\* zeroed, which is all of the image when the box is one pixel wide / high
masked_dx(s, inp) == IF Nx(s) = 1 THEN << 0, 0 >> ELSE inp.dx
masked_dy(s, inp) == IF Ny(s) = 1 THEN << 0, 0 >> ELSE inp.dy

\* det(MT . MT^T), the matrix np.linalg.inv is given (flat weights)
normal_det(s, inp) ==
    LET a == masked_dx(s, inp)
        c == masked_dy(s, inp)
    IN  Dot(a, a) * Dot(c, c) - Dot(a, c) * Dot(a, c)

\* (ddx, ddy) = inv(MT . MT^T) . MT . y, by Cramer's rule; the inputs are
\* chosen so that the division is exact
normal_solve(s, inp) ==
    LET a == masked_dx(s, inp)
        c == masked_dy(s, inp)
        det == normal_det(s, inp)
        ar == Dot(a, inp.res)
        cr == Dot(c, inp.res)
    IN  << (Dot(c, c) * ar - Dot(a, c) * cr) \div det,
           (Dot(a, a) * cr - Dot(a, c) * ar) \div det >>

\* line 621: ddx**2 + ddy**2 > center_min_dist**2, with dd in coordinate steps
exceeds_min_dist(dd) ==
    (dd[1] * dd[1] + dd[2] * dd[2]) * center_min_dist_inv * center_min_dist_inv
        > Unit * Unit

\* a variant of update_position that adds ddx to y and ddy to x
update_position_mutant(s, inp) ==
    IF ~ s.shift_center THEN [s |-> s, exc |-> "", dd |-> <<>>]
    ELSE IF normal_det(s, inp) = 0 THEN [s |-> s, exc |-> "LinAlgError", dd |-> <<>>]
    ELSE LET dd == normal_solve(s, inp)
         IN  IF exceeds_min_dist(dd)
             THEN [s |-> set_center(s, << s.y + dd[1], s.x + dd[2] >>),
                   exc |-> "", dd |-> dd]
             ELSE [s |-> s, exc |-> "", dd |-> dd]

\* the body of the loop of Blend._update_positions for source m (1-based);
\* dd is the correction (ddx, ddy) of line 617, <<>> when none was computed
update_position(s, inp) ==
    IF ~ s.shift_center THEN [s |-> s, exc |-> "", dd |-> <<>>]
    ELSE IF normal_det(s, inp) = 0 THEN [s |-> s, exc |-> "LinAlgError", dd |-> <<>>]
    ELSE LET dd == normal_solve(s, inp)
         IN  IF exceeds_min_dist(dd)
             THEN [s |-> set_center(s, << s.y + dd[2], s.x + dd[1] >>),
                   exc |-> "", dd |-> dd]
             ELSE [s |-> s, exc |-> "", dd |-> dd]

\* Blend._update_positions, from source m on: np.linalg.inv raises
\* LinAlgError for a singular matrix and nothing catches it. dds collects
\* the corrections computed so far, one entry per source visited.
RECURSIVE update_positions_from(_, _, _, _)
update_positions_from(ss, inps, m, dds) ==
    IF m > Len(ss) THEN [ss |-> ss, exc |-> "", dds |-> dds]
    ELSE LET r == update_position(ss[m], inps[m])
         IN  IF r.exc # "" THEN [ss |-> ss, exc |-> r.exc, dds |-> Append(dds, r.dd)]
             ELSE update_positions_from([ss EXCEPT ![m] = r.s], inps, m + 1,
                                        Append(dds, r.dd))

_update_positions(ss, inps) == update_positions_from(ss, inps, 1, <<>>)

\* ---------------------------------------------------------------- callbacks
\* lines 524-525 and 629-630: j // K and j % K, both rounding down
AorS_of(b, j) == j \div b.K
k_of(b, j) == j % b.K

\* a list of n entries read at the Python index i: the 1-based position, or
\* 0 for the IndexError (a negative index counts from the end)
list_position(i, n) ==
    IF i >= 0 /\ i < n THEN i + 1
    ELSE IF i < 0 /\ i >= - n THEN i + n + 1
    ELSE 0

\* a variant of leads_sweep that tests k == 0 alone
leads_sweep_mutant(b, j) == k_of(b, j) = 0

\* lines 529-530 / 633: is j the first block of the leading group
leads_sweep(b, j) == AorS_of(b, j) = b.update_order[1] /\ k_of(b, j) = 0

\* a variant of centers_due without the warm-up test
centers_due_mutant(b) ==
    b.update_centers /\ b.it % center_skip = 0

\* lines 534-535: is a position update due at the counter value b.it
centers_due(b) ==
    b.update_centers /\ b.it >= center_wait /\ b.it % center_skip = 0

\* The values of the SED and morphology rows are not part of a Source
\* record; an update reports the rows it assigns as the set wrote of
\* << "sed" or "morph", m, l >> (source m, local component l).

\* a variant of update_A that does not test fix_sed
update_A_mutant(b, ss, k) ==
    LET ml == source_of(b, k)
    IN  IF ~ b._diff THEN [ss |-> ss, exc |-> "AttributeError", wrote |-> {}]
        ELSE IF k >= b._models THEN [ss |-> ss, exc |-> "IndexError", wrote |-> {}]
        ELSE [ss |-> ss, exc |-> "", wrote |-> { << "sed", ml[1], ml[2] >> }]

\* lines 542-554: the SED update of flat component k; line 550 reads _diff
\* and _models[k], line 553 assigns sources[m].sed[l]
update_A(b, ss, k) ==
    LET ml == source_of(b, k)
    IN  IF ss[ml[1] + 1].fix_sed[ml[2] + 1]
        THEN [ss |-> ss, exc |-> "", wrote |-> {}]
        ELSE IF ~ b._diff THEN [ss |-> ss, exc |-> "AttributeError", wrote |-> {}]
        ELSE IF k >= b._models THEN [ss |-> ss, exc |-> "IndexError", wrote |-> {}]
        ELSE [ss |-> ss, exc |-> "", wrote |-> { << "sed", ml[1], ml[2] >> }]

\* lines 556-577: the morphology update of flat component k; the residual
\* cut-out is sized by self.sources[k], the gradient by source m's Gamma;
\* line 576 assigns sources[m].morph[l]
update_S(b, ss, k) ==
    LET ml == source_of(b, k)
        m  == ml[1] + 1
    IN  IF ss[m].fix_morph[ml[2] + 1] THEN [ss |-> ss, exc |-> "", wrote |-> {}]
        ELSE IF k >= b.M THEN [ss |-> ss, exc |-> "IndexError", wrote |-> {}]
        ELSE IF ~ b._diff THEN [ss |-> ss, exc |-> "AttributeError", wrote |-> {}]
        ELSE IF Ny(ss[k + 1]) * Nx(ss[k + 1]) # Ny(ss[m]) * Nx(ss[m])
             THEN [ss |-> ss, exc |-> "ValueError", wrote |-> {}]
        ELSE [ss |-> ss, exc |-> "", wrote |-> { << "morph", ml[1], ml[2] >> }]

\* Blend._prox_f(X, step, j=j). computed: the model was recomputed;
\* positions: _update_positions was called; dds: the corrections it
\* computed; wrote: the rows assigned. Line 540 (for k = 0) reads
\* _weights[AorS + 1], a list of three entries, and _model; any other AorS
\* than 0 and 1 ends in the raise of line 579.
_prox_f(b, ss, j, inps) ==
    LET lead == leads_sweep(b, j)
        cm   == IF lead THEN _compute_model(b, ss) ELSE [b |-> b, computed |-> FALSE]
        due  == lead /\ centers_due(cm.b)
        up   == IF due THEN _update_positions(ss, inps)
                ELSE [ss |-> ss, exc |-> "", dds |-> <<>>]
        b1   == IF lead THEN [cm.b EXCEPT !.it = cm.b.it + 1] ELSE b
        res  == IF k_of(b, j) # 0 THEN ""
                ELSE IF list_position(AorS_of(b, j) + 1, 3) = 0 THEN "IndexError"
                ELSE IF b1._models = 0 THEN "AttributeError"
                ELSE ""
        b2   == IF k_of(b, j) = 0 /\ res = "" THEN [b1 EXCEPT !._diff = TRUE] ELSE b1
        upd  == IF AorS_of(b, j) = 0 THEN update_A(b2, up.ss, k_of(b, j))
                ELSE IF AorS_of(b, j) = 1 THEN update_S(b2, up.ss, k_of(b, j))
                ELSE [ss |-> up.ss, exc |-> "ValueError", wrote |-> {}]
    IN  IF up.exc # ""
        THEN [b |-> cm.b, ss |-> up.ss, exc |-> up.exc,
              computed |-> cm.computed, positions |-> due, dds |-> up.dds,
              wrote |-> {}]
        ELSE IF res # ""
        THEN [b |-> b1, ss |-> up.ss, exc |-> res,
              computed |-> cm.computed, positions |-> due, dds |-> up.dds,
              wrote |-> {}]
        ELSE [b |-> b2, ss |-> upd.ss, exc |-> upd.exc,
              computed |-> cm.computed, positions |-> due, dds |-> up.dds,
              wrote |-> upd.wrote]

\* a variant of _steps_f that recomputes at block 0 whatever the update order
_steps_f_mutant(b, ss, j) ==
    LET lead == j = 0
        cm   == IF lead THEN _compute_model(b, ss) ELSE [b |-> b, computed |-> FALSE]
        b1   == IF lead
                THEN [cm.b EXCEPT !.step_AS = << << 0, cm.b.it >>, << 1, cm.b.it >> >>]
                ELSE b
        at   == list_position(AorS_of(b, j), 2)
    IN  IF at = 0
        THEN [b |-> b1, ret |-> <<>>, exc |-> "IndexError",
              computed |-> cm.computed, recomputed |-> lead]
        ELSE [b |-> b1, ret |-> b1.step_AS[at], exc |-> "",
              computed |-> cm.computed, recomputed |-> lead]

\* Blend._steps_f(j, Xs). A stored step size is <<group, it>>: the group it
\* is for and the counter value at which it was computed. ret is the value
\* returned, recomputed tells whether lines 636-651 ran. Line 649 raises for
\* a per-band psf, the reshape of line 645 when the cache does not hold K
\* images. Line 652 reads the list step_AS of two entries at the index
\* AorS.
_steps_f(b, ss, j) ==
    LET lead == leads_sweep(b, j)
        cm   == IF lead THEN _compute_model(b, ss) ELSE [b |-> b, computed |-> FALSE]
        b1   == IF lead
                THEN [cm.b EXCEPT !.step_AS = << << 0, cm.b.it >>, << 1, cm.b.it >> >>]
                ELSE b
        at   == list_position(AorS_of(b, j), 2)
    IN  IF lead /\ b.psf_per_band
        THEN [b |-> cm.b, ret |-> <<>>, exc |-> "NotImplementedError",
              computed |-> cm.computed, recomputed |-> FALSE]
        ELSE IF lead /\ cm.b._models # b.K
        THEN [b |-> cm.b, ret |-> <<>>, exc |-> "ValueError",
              computed |-> cm.computed, recomputed |-> FALSE]
        ELSE IF at = 0
        THEN [b |-> b1, ret |-> <<>>, exc |-> "IndexError",
              computed |-> cm.computed, recomputed |-> lead]
        ELSE [b |-> b1, ret |-> b1.step_AS[at], exc |-> "",
              computed |-> cm.computed, recomputed |-> lead]

\* --------------------------------------------------------------- Blend.step
\* a variant of update_order_blocks that ignores update_order
update_order_blocks_mutant(b) == range(0, 2 * b.K)

\* lines 383-387: the block order handed to bsdmm; range(..) + range(..) is
\* the list concatenation of Python 2, the language of this code
update_order_blocks(b) ==
    IF b.update_order[1] = 0
    THEN range(0, 2 * b.K)
    ELSE range(b.K, 2 * b.K) \o range(0, b.K)

\* lines 375-381: X reads sed[l] and morph[l] of every registered component
collect_X(b, ss) ==
    IF \A k \in 0..(b.K - 1) :
          LET ml == source_of(b, k)
          IN  /\ ml[2] < ss[ml[1] + 1].sedRows
              /\ ml[2] < ss[ml[1] + 1].morphRows
    THEN "" ELSE "IndexError"

\* Blend.step up to the call of bsdmm: the exception raised before the
\* solver starts, if any, and the order the solver is given
step_setup(b, ss) ==
    IF collect_X(b, ss) # "" THEN [exc |-> collect_X(b, ss), order |-> <<>>]
    ELSE IF b.update_order = <<>> \/ b.e_rel = <<>> \/ b.e_abs = <<>>
         THEN [exc |-> "AttributeError", order |-> <<>>]
    ELSE [exc |-> "", order |-> update_order_blocks(b)]

\* ==================================================================== state
VARIABLES
    sources,   \* the list of Source records the Blend shares with its caller
    blend,     \* the Blend record
    solver,    \* the run of bsdmm inside Blend.step:
               \*   pc "idle" (no call in progress) or "solving", order, pos the
               \*   1-based position in order, phase "steps" or "prox", sweep the
               \*   sweeps completed by this call, max_iter, step the step size
               \*   last returned to the solver
    obs        \* history of the calls, for stating the properties:
               \*   fit       : the last API call is Blend.fit
               \*   outcome   : "none", "running", "returned" or "raised"
               \*   exc       : where and what the last call raised, "" if
               \*               nothing, as "<set_data|step|callback>:<name>"
               \*   bound     : <<img, sky, update_order>>, the arguments of the
               \*               last set_data that returned
               \*   sweepsDone: complete sweeps since the last set_data
               \*   aborted   : a callback raised since the last set_data
               \*   startIt   : the counter at the start of the current sweep
               \*   modelComputes, stepComputes, posUpdates : how often the
               \*       model / the step sizes were recomputed and how often
               \*       _update_positions ran in the current sweep
               \*   modelAt, stepsAt : the callback and position of the last
               \*       recomputation, as <<name, position>>
               \*   prox      : << j, wrote >> of the last _prox_f call since
               \*               set_data, <<>> if none: the block and the rows
               \*               it assigned
               \*   dds       : the corrections of the last _update_positions
               \*   builtK    : each source's K at construction
               \*   builtAt   : each source's centroid at construction

vars == << sources, blend, solver, obs >>

\* ------------------------------------------------------------------ inputs
PosInputs ==
    { [dx |-> << 1, 0 >>, dy |-> << 0, 1 >>, res |-> << 0, 0 >>],
      [dx |-> << 1, 0 >>, dy |-> << 0, 1 >>, res |-> << 1, 0 >>],
      [dx |-> << 1, 0 >>, dy |-> << 1, 1 >>, res |-> << 0, -1 >>],
      [dx |-> << 1, 1 >>, dy |-> << 1, 1 >>, res |-> << 1, 0 >>],
      [dx |-> << 0, 0 >>, dy |-> << 0, 1 >>, res |-> << 1, 0 >>] }
NoInput == [dx |-> << 0, 0 >>, dy |-> << 0, 0 >>, res |-> << 0, 0 >>]

Images == { 2 }
Skies == { <<>>, << 1 >> }
UpdateOrders == { <<>>, << 0, 1 >>, << 1, 0 >> }
\* max_iter of fit, and of a direct call of step
MaxIters == { 0, 1, MaxIt }
StepIters == { 0, 1 }

\* the Sources a Blend is built from: sed and morph not given (K defaults to
\* 1) or given with one or two rows, boxes of 3x3 pixels and of one pixel
SourceKinds ==
    { Source__init__(<< 1, 1 >>, << 3, 3 >>, 0, FALSE, FALSE, TRUE),
      Source__init__(<< Unit, Unit + 1 >>, << 3, 3 >>, 1, FALSE, FALSE, FALSE),
      Source__init__(<< Unit, 1 >>, << 3, 3 >>, 2, FALSE, TRUE, TRUE),
      Source__init__(<< 1, Unit >>, << 3, 3 >>, 2, TRUE, FALSE, FALSE),
      Source__init__(<< 0, Unit >>, << 1, 1 >>, 1, FALSE, FALSE, TRUE) }

\* one source of every kind, and pairs: K defaulted + one row, one row + two
\* fixed rows, two free rows + a one-pixel box
SourceLists ==
    { << s >> : s \in SourceKinds }
    \cup { ss \in { << s1, s2 >> : s1 \in SourceKinds, s2 \in SourceKinds } :
             \/ ss[1].sedRows = 0 /\ ss[2].sedRows = 1 /\ Nx(ss[2]) = 3
             \/ ss[1].sedRows = 1 /\ Nx(ss[1]) = 3
                  /\ ss[2].sedRows = 2 /\ ss[2].fix_morph[1]
             \/ ss[1].sedRows = 2 /\ ~ ss[1].fix_morph[1] /\ Nx(ss[2]) = 1 }

idle_solver == [pc |-> "idle", order |-> <<>>, pos |-> 0, phase |-> "steps",
                sweep |-> 0, max_iter |-> 0, step |-> <<>>]

Init ==
    \E ss \in SourceLists :
        /\ sources = ss
        /\ blend = Blend__init__(ss)
        /\ solver = idle_solver
        /\ obs = [fit |-> FALSE, outcome |-> "none", exc |-> "",
                  bound |-> <<>>, sweepsDone |-> 0, aborted |-> FALSE,
                  startIt |-> 0, modelComputes |-> 0, stepComputes |-> 0,
                  posUpdates |-> 0, modelAt |-> <<>>, stepsAt |-> <<>>,
                  prox |-> <<>>, dds |-> <<>>,
                  builtK |-> [m \in 1..Len(ss) |-> SourceK(ss[m])],
                  builtAt |-> [m \in 1..Len(ss) |-> << ss[m].y, ss[m].x >>]]

\* every centroid lies inside the image (the bound on the centroids)
centers_in_image(ss) ==
    \A m \in 1..Len(ss) :
        /\ ss[m].y >= 0 /\ ss[m].y < ImgNY * Unit
        /\ ss[m].x >= 0 /\ ss[m].x < ImgNX * Unit

fresh_sweep(o, b) ==
    [o EXCEPT !.startIt = b.it, !.modelComputes = 0, !.stepComputes = 0,
              !.posUpdates = 0, !.modelAt = <<>>, !.stepsAt = <<>>]

\* the history after set_data(img, sky=sky, update_order=..) ended with the
\* result r
after_set_data(o, r, img, sky, update_order) ==
    [fresh_sweep(o, r.b) EXCEPT
        !.exc = IF r.exc = "" THEN "" ELSE "set_data:" \o r.exc,
        !.bound = IF r.exc = "" THEN << img, sky, update_order >> ELSE <<>>,
        !.sweepsDone = 0, !.aborted = FALSE, !.prox = <<>>, !.dds = <<>>]

\* ----------------------------------------------------------------- actions
\* Blend.set_data(img, sky=sky, init_sources=do_init, update_order=..)
SetData(img, sky, do_init, update_order) ==
    /\ solver.pc = "idle"
    /\ \E r \in { set_data(blend, sources, img, sky, do_init, update_order) } :
           /\ blend' = r.b
           /\ sources' = r.ss
           /\ solver' = idle_solver
           /\ obs' = [after_set_data(obs, r, img, sky, update_order) EXCEPT
                        !.fit = FALSE,
                        !.outcome = IF r.exc = "" THEN "returned" ELSE "raised"]

\* Blend.step(max_iter=n), called by fit (isFit) or directly, from the
\* Blend b, the sources ss and the history o: raises before the solver
\* starts, returns at once (no sweep to run) or starts the first sweep
begin_step(isFit, b, ss, o, n) ==
    \E st \in { step_setup(b, ss) } :
        /\ blend' = b
        /\ sources' = ss
        /\ IF st.exc # ""
           THEN /\ solver' = idle_solver
                /\ obs' = [o EXCEPT !.fit = isFit, !.outcome = "raised",
                                     !.exc = "step:" \o st.exc]
           ELSE IF n = 0
           THEN /\ solver' = idle_solver
                /\ obs' = [o EXCEPT !.fit = isFit, !.outcome = "returned",
                                     !.exc = ""]
           ELSE /\ solver' = [pc |-> "solving", order |-> st.order, pos |-> 1,
                              phase |-> "steps", sweep |-> 0, max_iter |-> n,
                              step |-> <<>>]
                /\ obs' = [fresh_sweep(o, b) EXCEPT !.fit = isFit,
                                !.outcome = "running", !.exc = ""]

\* Blend.step(max_iter=n)
Step(n) ==
    /\ solver.pc = "idle"
    /\ blend.it + n <= MaxIt
    /\ begin_step(FALSE, blend, sources, obs, n)

\* Blend.fit(img, sky=sky, init_sources=do_init, update_order=.., max_iter=n)
Fit(img, sky, do_init, update_order, n) ==
    /\ solver.pc = "idle"
    /\ n <= MaxIt
    /\ \E r \in { set_data(blend, sources, img, sky, do_init, update_order) } :
        \E o \in { after_set_data(obs, r, img, sky, update_order) } :
           IF r.exc # ""
           THEN /\ blend' = r.b
                /\ sources' = r.ss
                /\ solver' = idle_solver
                /\ obs' = [o EXCEPT !.fit = TRUE, !.outcome = "raised"]
           ELSE begin_step(TRUE, r.b, r.ss, o, n)

\* the exception of a callback leaves bsdmm, step and fit
callback_raised(o, exc) ==
    [o EXCEPT !.outcome = "raised", !.exc = "callback:" \o exc, !.aborted = TRUE]

\* bsdmm asks for the step size of the block at pos: steps_f(j, X)
StepsF ==
    /\ solver.pc = "solving"
    /\ solver.phase = "steps"
    /\ solver.pos <= Len(solver.order)
    /\ \E r \in { _steps_f(blend, sources, solver.order[solver.pos]) } :
        \E o \in { [obs EXCEPT
                    !.modelComputes = @ + (IF r.computed THEN 1 ELSE 0),
                    !.modelAt = IF r.computed THEN << "steps_f", solver.pos >> ELSE @,
                    !.stepComputes = @ + (IF r.recomputed THEN 1 ELSE 0),
                    !.stepsAt = IF r.recomputed THEN << "steps_f", solver.pos >> ELSE @] } :
           /\ blend' = r.b
           /\ sources' = sources
           /\ IF r.exc # ""
              THEN /\ solver' = idle_solver
                   /\ obs' = callback_raised(o, r.exc)
              ELSE /\ solver' = [solver EXCEPT !.phase = "prox", !.step = r.ret]
                   /\ obs' = o

\* bsdmm updates the block at pos: prox_f(X[j], step, Xs=X, j=j). The
\* numerical inputs of a position update are chosen only when one is due.
ProxF ==
    /\ solver.pc = "solving"
    /\ solver.phase = "prox"
    /\ LET j == solver.order[solver.pos]
           due == leads_sweep(blend, j) /\ centers_due(blend)
       IN  \E inps \in (IF due THEN [1..blend.M -> PosInputs]
                                ELSE {[m \in 1..blend.M |-> NoInput]}) :
             \E r \in { _prox_f(blend, sources, j, inps) },
                last \in { solver.pos = Len(solver.order) } :
              \E o \in { [obs EXCEPT
                        !.modelComputes = @ + (IF r.computed THEN 1 ELSE 0),
                        !.modelAt = IF r.computed THEN << "prox_f", solver.pos >> ELSE @,
                        !.posUpdates = @ + (IF r.positions THEN 1 ELSE 0),
                        !.prox = << j, r.wrote >>,
                        !.dds = IF r.positions THEN r.dds ELSE @] } :
                 /\ centers_in_image(r.ss)
                 /\ blend' = r.b
                 /\ sources' = r.ss
                 /\ IF r.exc # ""
                    THEN /\ solver' = idle_solver
                         /\ obs' = callback_raised(o, r.exc)
                    ELSE /\ solver' = [solver EXCEPT !.phase = "steps", !.pos = @ + 1,
                                          !.sweep = @ + (IF last THEN 1 ELSE 0)]
                         /\ obs' = [o EXCEPT
                                      !.sweepsDone = @ + (IF last THEN 1 ELSE 0)]

sweep_over == solver.pc = "solving" /\ solver.pos > Len(solver.order)

returned(o) == [o EXCEPT !.outcome = "returned", !.exc = ""]

\* bsdmm finds the tolerances met after a sweep and returns
Converged ==
    /\ sweep_over
    /\ solver' = idle_solver
    /\ obs' = returned(obs)
    /\ UNCHANGED << blend, sources >>

\* bsdmm has run max_iter sweeps and returns
MaxIterReached ==
    /\ sweep_over
    /\ solver.sweep >= solver.max_iter
    /\ solver' = idle_solver
    /\ obs' = returned(obs)
    /\ UNCHANGED << blend, sources >>

\* bsdmm starts the next sweep
NextSweep ==
    /\ sweep_over
    /\ solver.sweep < solver.max_iter
    /\ solver' = [solver EXCEPT !.pos = 1, !.phase = "steps"]
    /\ obs' = fresh_sweep(obs, blend)
    /\ UNCHANGED << blend, sources >>

Next ==
    \/ \E img \in Images, sky \in Skies, do_init \in BOOLEAN, uo \in UpdateOrders :
            SetData(img, sky, do_init, uo)
    \/ \E img \in Images, sky \in Skies, do_init \in BOOLEAN, uo \in UpdateOrders,
           n \in MaxIters :
            Fit(img, sky, do_init, uo, n)
    \/ \E n \in StepIters : Step(n)
    \/ StepsF
    \/ ProxF
    \/ Converged
    \/ MaxIterReached
    \/ NextSweep

Spec == Init /\ [][Next]_vars

\* ================================================================ geometry
\* A second specification for the geometry of the boxes: Sources are
\* constructed, re-centred with set_center(center) anywhere up to Reach
\* pixels beyond the image, and get_slice_for and Blend.get_model are
\* applied to them. Here obs is the record
\*   op   : the last call, "Source", "set_center", "get_slice_for" or
\*          "get_model"
\*   seds : the SED values of every source's components
\*   out  : what the call returned, <<>> for None

\* the shape of Blend._img, without the band axis
ImShape == << ImgNY, ImgNX >>

\* the coordinates tried along an axis of n pixels: both ends of every pixel
GeomCoords(n) ==
    { px * Unit + f : px \in (- Reach)..(n - 1 + Reach), f \in { 0, Unit - 1 } }
GeomCenters == GeomCoords(ImgNY) \X GeomCoords(ImgNX)

\* Source(center, size, sed, morph) with k rows, at the same centre; size is
\* (width, height) as __init__ hands it to set_center
GeomSource(size, k) ==
    Source__init__(<< 1, Unit + 1 >>, size, k, FALSE, FALSE, FALSE)
GeomSourceLists ==
    { << GeomSource(<< 3, 3 >>, 1) >>,
      << GeomSource(<< 3, 1 >>, 2) >>,
      << GeomSource(<< 1, 1 >>, 1) >>,
      << GeomSource(<< 2, 4 >>, 1) >>,
      << GeomSource(<< 3, 3 >>, 1), GeomSource(<< 3, 3 >>, 2) >>,
      << GeomSource(<< 3, 1 >>, 2), GeomSource(<< 3, 3 >>, 2) >> }
GeomSedValues == { 1, 2 }

GeomInit ==
    \E ss \in GeomSourceLists, v \in GeomSedValues :
        /\ sources = ss
        /\ blend = set_data(Blend__init__(ss), ss, 2, << 1 >>, FALSE, <<>>).b
        /\ solver = idle_solver
        /\ obs = [op |-> "Source",
                  seds |-> [m \in 1..Len(ss) |-> [l \in 1..SourceK(ss[m]) |-> v * l]],
                  out |-> <<>>]

\* sources[0].set_center(center)
GeomSetCenter(center) ==
    /\ sources' = [sources EXCEPT ![1] = set_center(@, center)]
    /\ obs' = [obs EXCEPT !.op = "set_center", !.out = <<>>]
    /\ UNCHANGED << blend, solver >>

\* image[sources[0].bb] and model[sources[0].get_slice_for(image.shape)]
GeomGetSliceFor ==
    /\ obs' = [obs EXCEPT !.op = "get_slice_for",
                          !.out = box_selection(sources[1], ImShape)]
    /\ UNCHANGED << sources, blend, solver >>

\* blend.get_model(), blend.get_model(m) for every m, and
\* blend.get_model(combine=False, combine_source_components=False)
GeomGetModel ==
    /\ obs' = [obs EXCEPT
                 !.op = "get_model",
                 !.out = [full |-> get_model(sources, obs.seds, ImShape,
                                             <<>>, TRUE, TRUE),
                          bySource |-> [m \in 1..Len(sources) |->
                                          get_model(sources, obs.seds, ImShape,
                                                    << m - 1 >>, TRUE, TRUE)],
                          byComponent |-> get_model(sources, obs.seds, ImShape,
                                                    <<>>, FALSE, FALSE)]]
    /\ UNCHANGED << sources, blend, solver >>

GeomNext ==
    \/ \E center \in GeomCenters : GeomSetCenter(center)
    \/ GeomGetSliceFor
    \/ GeomGetModel

SpecGeom == GeomInit /\ [][GeomNext]_vars

\* ============================================================ construction
\* A third specification for the arguments of Source(..) and the SED that
\* init_source makes: the arguments are drawn at the start, the Source is
\* constructed from them and init_source is applied to it. Here obs is
\*   op   : the last call, "none", "Source" or "init_source"
\*   args : the arguments of Source(..)
\*   exc  : what the last call raised, "" if nothing
\*   out  : the SED row init_source stored, <<>> before
BuildCenters == { << 1, Unit + 1 >>, << - (ImgNY + 1) * Unit, 0 >> }
BuildConstraints ==
    { <<>>, << <<>> >>, << << "M" >> >>, << << "S", "M" >> >>, << << "l0" >> >>,
      << << "l1", "l0", "m" >> >>, << << "Z" >> >>, << << "x", "Z", "c" >> >>,
      << << "Y", "X", "y" >> >> }
BuildSeds == { <<>>, << 1, NBands >>, << 2, NBands >>, << 3, NBands >> }
BuildMorphs == { <<>>, << 1, 9 >>, << 2, 9 >> }
BuildFlags ==
    { scalar_flag(FALSE), scalar_flag(TRUE),
      [iter |-> TRUE, val |-> << TRUE, FALSE >>], [iter |-> TRUE, val |-> << TRUE >>] }
BuildArgs ==
    [center : BuildCenters, constraints : BuildConstraints, sed : BuildSeds,
     morph : BuildMorphs, fix_sed : BuildFlags,
     fix_morph : { scalar_flag(FALSE), [iter |-> TRUE, val |-> << FALSE, TRUE >>] }]
\* the band values of the image at the integer centroid
BuildPixels == [1..NBands -> 0..MaxPix]

BuildInit ==
    \E args \in BuildArgs :
        /\ sources = <<>>
        /\ blend = Blend__init__(<<>>)
        /\ solver = idle_solver
        /\ obs = [op |-> "none", args |-> args, exc |-> "", out |-> <<>>]

\* Source(center, 3, constraints=.., sed=.., morph=.., fix_sed=..,
\* fix_morph=..)
BuildSource ==
    /\ obs.op = "none"
    /\ \E a \in { obs.args } :
        \E r \in { Source__init__args(a.center, << 3, 3 >>, a.constraints, a.sed,
                                      a.morph, a.fix_sed, a.fix_morph, TRUE) } :
           /\ sources' = IF r.exc = "" THEN << r.s >> ELSE <<>>
           /\ obs' = [obs EXCEPT !.op = "Source", !.exc = r.exc]
    /\ UNCHANGED << blend, solver >>

\* source.init_source(img) for an image with the band values pix at the
\* integer centroid
BuildInitSource(pix) ==
    /\ obs.op = "Source"
    /\ sources # <<>>
    /\ \E r \in { init_source(sources[1]) } :
           /\ sources' = << r.s >>
           /\ obs' = [obs EXCEPT !.op = "init_source", !.exc = r.exc,
                                 !.out = IF r.exc = "IndexError" THEN <<>>
                                         ELSE << init_source_sed(pix) >>]
    /\ UNCHANGED << blend, solver >>

BuildNext ==
    \/ BuildSource
    \/ \E pix \in BuildPixels : BuildInitSource(pix)

SpecBuild == BuildInit /\ [][BuildNext]_vars

\* ============================================================ direct calls
\* A fourth specification for the callbacks as functions of the block
\* index: after a set_data that returned, _steps_f and _prox_f are called
\* with any index j from below -2K to above 2K-1, in any order. Here obs is
\*   op  : the last call, "set_data", "_steps_f" or "_prox_f"
\*   j   : its block index
\*   exc : what it raised, "" if it returned
\*   ret : the step size _steps_f returned, <<>> for None
CallIndices(K) == (- 2 * K - 1)..(2 * K + 1)

CallInit ==
    \E ss \in SourceLists, uo \in { << 0, 1 >>, << 1, 0 >> } :
        /\ sources = ss
        /\ blend = set_data(Blend__init__(ss), ss, 2, << 1 >>, FALSE, uo).b
        /\ solver = idle_solver
        /\ obs = [op |-> "set_data", j |-> 0, exc |-> "", ret |-> <<>>]

\* blend._steps_f(j, X)
CallStepsF(j) ==
    /\ \E r \in { _steps_f(blend, sources, j) } :
           /\ blend' = r.b
           /\ obs' = [op |-> "_steps_f", j |-> j, exc |-> r.exc, ret |-> r.ret]
    /\ UNCHANGED << sources, solver >>

\* blend._prox_f(X[j], step, Xs=X, j=j)
CallProxF(j) ==
    /\ blend.it < MaxIt
    /\ LET due == leads_sweep(blend, j) /\ centers_due(blend)
       IN  \E inps \in (IF due THEN [1..blend.M -> PosInputs]
                                ELSE {[m \in 1..blend.M |-> NoInput]}) :
             \E r \in { _prox_f(blend, sources, j, inps) } :
                 /\ centers_in_image(r.ss)
                 /\ blend' = r.b
                 /\ sources' = r.ss
                 /\ obs' = [op |-> "_prox_f", j |-> j, exc |-> r.exc, ret |-> <<>>]
    /\ UNCHANGED solver

CallNext ==
    \/ \E j \in CallIndices(blend.K) : CallStepsF(j)
    \/ \E j \in CallIndices(blend.K) : CallProxF(j)

SpecCall == CallInit /\ [][CallNext]_vars

\* =============================================================== operators
\* transformation.py. A flattened image of shape <<height, width>> is a
\* function of the pixel index 0..size-1 (pixel (y, x) has index
\* width*y + x), a matrix a function of <<row, column>> and an operator the
\* record of proxmin's MatrixAdapter: the matrix L, the axis and the
\* spectral norm where the builder sets it (<<>> where proxmin derives it
\* from L on demand).
\* An intermediate array is bound as the element v of a one-element set,
\* the({ e(v) : v \in { array } }), so that it is computed once.
the(S) == CHOOSE z \in S : TRUE
size_of(shape) == shape[1] * shape[2]
pixels(shape) == 0..(size_of(shape) - 1)
MatrixAdapter(L, norm) == [L |-> L, axis |-> 1, _spec_norm |-> norm]

\* L.dot(x) for a flattened image x
RECURSIVE row_dot(_, _, _, _)
row_dot(L, x, r, n) ==
    IF n = 0 THEN 0 ELSE L[<< r, n - 1 >>] * x[n - 1] + row_dot(L, x, r, n - 1)
matrix_dot(L, x) == [r \in DOMAIN x |-> row_dot(L, x, r, Cardinality(DOMAIN x))]

\* The process-wide table behind Cache.check / Cache.set: check(name, key)
\* raises KeyError for an entry never set, and set stores the value under
\* (name, key) for the life of the process. A table is a function of
\* << name, key >>.
Cache_has(cache, name, key) == << name, key >> \in DOMAIN cache
Cache_check(cache, name, key) == cache[<< name, key >>]
Cache_set(cache, name, key, value) ==
    [e \in DOMAIN cache \cup { << name, key >> } |->
        IF e = << name, key >> THEN value ELSE cache[e]]
\* the result of a builder that found nothing in the table: the value is
\* stored and returned
built(cache, name, key, value) ==
    [cache |-> Cache_set(cache, name, key, value), exc |-> "", ret |-> value]
found(cache, name, key) ==
    [cache |-> cache, exc |-> "", ret |-> Cache_check(cache, name, key)]

\* scipy.sparse.eye(size, k=size): the ones lie outside the matrix
getZeroOp(cache, shape) ==
    IF Cache_has(cache, "getZeroOp", shape) THEN found(cache, "getZeroOp", shape)
    ELSE the({ built(cache, "getZeroOp", shape, MatrixAdapter(L, << 0 >>)) :
               L \in { [e \in pixels(shape) \X pixels(shape) |->
                          IF e[2] = e[1] + size_of(shape) THEN 1 ELSE 0] } })

getIdentityOp(cache, shape) ==
    IF Cache_has(cache, "getIdentityOp", shape)
    THEN found(cache, "getIdentityOp", shape)
    ELSE the({ built(cache, "getIdentityOp", shape, MatrixAdapter(L, << 1 >>)) :
               L \in { [e \in pixels(shape) \X pixels(shape) |->
                          IF e[2] = e[1] THEN 1 ELSE 0] } })

\* The matrix of getSymmetryOp. sidx = idx[::-1], so the subtracted matrix
\* has a one at (i, size-1-i). Sparse matrices have no in-place subtraction:
\* `symmetryOp -= ..` binds the name to the difference and leaves the matrix
\* of the identity operator as it is.
symmetry_matrix_mutant(identity, shape) ==
    [e \in pixels(shape) \X pixels(shape) |->
        identity[e] - (IF e[2] = size_of(shape) - e[1] THEN 1 ELSE 0)]
symmetry_matrix(identity, shape) ==
    [e \in pixels(shape) \X pixels(shape) |->
        identity[e] - (IF e[2] = size_of(shape) - 1 - e[1] THEN 1 ELSE 0)]

getSymmetryOp(cache, shape) ==
    IF Cache_has(cache, "getSymmetryOp", shape)
    THEN found(cache, "getSymmetryOp", shape)
    ELSE the({ the({ built(id.cache, "getSymmetryOp", shape, MatrixAdapter(L, <<>>)) :
                     L \in { symmetry_matrix(id.ret.L, shape) } }) :
               id \in { getIdentityOp(cache, shape) } })

\* getOffsets(width) with the default coords: the eight neighbours as
\* << y, x >>, their offsets in the flattened image, and the slices of a
\* band, as << start, stop >> on an axis of length n
neighbours ==
    << << -1, -1 >>, << -1, 0 >>, << -1, 1 >>, << 0, -1 >>,
       << 0, 1 >>, << 1, -1 >>, << 1, 0 >>, << 1, 1 >> >>
getOffsets(width) == [n \in 1..8 |-> width * neighbours[n][1] + neighbours[n][2]]
band_slice(s, n) == IF s < 0 THEN << 0, s >> ELSE << s, n >>
band_sliceInv(s, n) == IF s < 0 THEN << - s, n >> ELSE << 0, - s >>

\* the number of indices the slice sl selects on an axis of length n and
\* the position of index i among them, 0 if it is not selected
slice_len(sl, n) == Max(0, slice_bound(sl[2], n) - slice_bound(sl[1], n))
slice_position(sl, n, i) ==
    IF slice_bound(sl[1], n) <= i /\ i < slice_bound(sl[2], n)
    THEN i - slice_bound(sl[1], n) + 1 ELSE 0

\* an index of a fancy-indexed assignment: a negative one counts from the end
wrapped(i, n) == IF i < 0 THEN i + n ELSE i

\* mask[n][..] = 1 of lines 490-495 (bands are numbered from 1 here): the
\* pixels of band n whose neighbour in the flattened image is on another
\* row
edge_masked(n, i, shape) ==
    LET at(hs, d) == \E h \in hs : i = wrapped(h * shape[2] + d, size_of(shape))
    IN  CASE n = 1 -> at(1..(shape[1] - 1), 0)
          [] n = 3 -> at(0..(shape[1] - 1), -1)
          [] n = 4 -> at(1..(shape[1] - 1), 0)
          [] n = 5 -> at(1..(shape[1] - 1), -1)
          [] n = 6 -> at(0..(shape[1] - 1), 0)
          [] n = 8 -> at(1..(shape[1] - 2), -1)
          [] OTHER -> FALSE

\* diagonalizeArray(arr) for a 2D array arr, a function of << y, x >>:
\* diagonals[n][i] is the value at pixel i's n-th neighbour in the
\* flattened image (0 where the band has no element), mask[n][i] says that
\* the element does not count. diagonals[n][slicesInv[n]] = data[slices[n]]
\* raises ValueError when the two slices differ in length (and the right
\* one is not a single element).
diagonalizeArray(arr, shape) ==
    the({ IF \E n \in 1..8 :
                /\ slice_len(band_slice(offs[n], N), N)
                      # slice_len(band_sliceInv(offs[n], N), N)
                /\ slice_len(band_slice(offs[n], N), N) # 1
          THEN [exc |-> "ValueError", diagonals |-> <<>>, mask |-> <<>>]
          ELSE [exc |-> "",
                diagonals |-> [n \in 1..8 |-> [i \in pixels(shape) |->
                    IF slice_position(band_sliceInv(offs[n], N), N, i) = 0 THEN 0
                    ELSE IF slice_len(band_slice(offs[n], N), N) = 1
                    THEN arr[<< slice_bound(band_slice(offs[n], N)[1], N) \div shape[2],
                                slice_bound(band_slice(offs[n], N)[1], N) % shape[2] >>]
                    ELSE arr[<< (i + offs[n]) \div shape[2],
                                (i + offs[n]) % shape[2] >>]]],
                mask |-> [n \in 1..8 |-> [i \in pixels(shape) |->
                    \/ slice_position(band_sliceInv(offs[n], N), N, i) = 0
                    \/ edge_masked(n, i, shape)]]] :
          offs \in { getOffsets(shape[2]) }, N \in { size_of(shape) } })

\* diagonalsToSparse(diagonals, shape): scipy.sparse.diags puts element j
\* of diag[slicesInv[n]] at (j, j + offset) for an offset above 0 and at
\* (j - offset, j) below, in a square matrix of len(diags[0]) +
\* abs(offsets[0]) rows; it raises ValueError for two equal offsets and
\* for a diagonal shorter than its place in the matrix.
diagonalsToSparse(diagonals, shape, zero) ==
    the({ the({ IF \/ \E n1, n2 \in 1..8 : n1 # n2 /\ offs[n1] = offs[n2]
                   \/ \E n \in 1..8 :
                        \/ m < Max(offs[n], - offs[n])
                        \/ /\ len[n] < m - Max(offs[n], - offs[n])
                           /\ len[n] # 1
                THEN [exc |-> "ValueError", m |-> 0, L |-> <<>>]
                ELSE [exc |-> "", m |-> m,
                      L |-> [e \in (0..(m - 1)) \X (0..(m - 1)) |->
                          IF \E n \in 1..8 : e[2] = e[1] + offs[n] /\ len[n] > 0
                          THEN diagonals[CHOOSE n \in 1..8 : e[2] = e[1] + offs[n]][e[1]]
                          ELSE zero]] :
                m \in { len[1] + Max(offs[1], - offs[1]) } }) :
          offs \in { getOffsets(shape[2]) },
          len \in { [n \in 1..8 |->
                      slice_len(band_sliceInv(getOffsets(shape[2])[n], size_of(shape)),
                                size_of(shape))] } })

\* The cosine of the angle between two directions is kept exact, as the
\* pair of the dot product and the squared length of the neighbour's
\* direction (the length of the pixel's own direction is the same for its
\* eight neighbours): cos_greater(p, q) says p.dot/sqrt(p.len2) >
\* q.dot/sqrt(q.len2).
no_weight == [dot |-> 0, len2 |-> 1]
cos_greater(p, q) ==
    IF p.dot >= 0 /\ q.dot >= 0 THEN p.dot * p.dot * q.len2 > q.dot * q.dot * p.len2
    ELSE IF p.dot >= 0 THEN TRUE
    ELSE IF q.dot >= 0 THEN FALSE
    ELSE p.dot * p.dot * q.len2 < q.dot * q.dot * p.len2

\* arctan2(dy, dx) after the correction for dx = 0 (lines 548-552 and
\* 560-563) is the angle of the direction (dx, dy), and of the direction
\* (tx, 0) where both are zero: tx is -1 for the peak (arctan2(-0, -1)) and
\* 1 for a neighbour (arctan2(0, 1))
direction(dx, dy, tx) == IF dx = 0 /\ dy = 0 THEN << tx, 0 >> ELSE << dx, dy >>
cos_of(u, v) == [dot |-> Dot(u, v), len2 |-> Dot(v, v)]

\* lines 529-573 of getRadialMonotonicWeights: cosWeight[n][i], or the
\* ValueError of diagonalizeArray. Distances are compared by their squares.
cosWeight(shape) ==
    the({ the({ IF dist.exc # "" THEN [exc |-> dist.exc, w |-> <<>>, mask |-> <<>>]
                ELSE [exc |-> "", mask |-> dist.mask,
                      w |-> [n \in 1..8 |-> [i \in pixels(shape) |->
                          IF \/ X[i] * X[i] + Y[i] * Y[i] <= dist.diagonals[n][i]
                             \/ dist.mask[n][i]
                          THEN no_weight
                          ELSE cos_of(direction(- X[i], - Y[i], -1),
                                      direction(xArr.diagonals[n][i] - X[i],
                                                yArr.diagonals[n][i] - Y[i], 1))]]] :
                dist \in { diagonalizeArray(
                             [p \in (0..(shape[1] - 1)) \X (0..(shape[2] - 1)) |->
                                 X[shape[2] * p[1] + p[2]] * X[shape[2] * p[1] + p[2]]
                                 + Y[shape[2] * p[1] + p[2]] * Y[shape[2] * p[1] + p[2]]],
                             shape) },
                xArr \in { diagonalizeArray(
                             [p \in (0..(shape[1] - 1)) \X (0..(shape[2] - 1)) |->
                                 X[shape[2] * p[1] + p[2]]], shape) },
                yArr \in { diagonalizeArray(
                             [p \in (0..(shape[1] - 1)) \X (0..(shape[2] - 1)) |->
                                 Y[shape[2] * p[1] + p[2]]], shape) } }) :
          X \in { [i \in pixels(shape) |-> (i % shape[2]) - (shape[2] \div 2)] },
          Y \in { [i \in pixels(shape) |-> (i \div shape[2]) - (shape[1] \div 2)] } })

\* np.argmax over the eight bands: the first band of the largest weight
argmax_band(w, i) ==
    CHOOSE n \in 1..8 :
        /\ \A k \in 1..8 : ~ cos_greater(w[k][i], w[n][i])
        /\ \A k \in 1..(n - 1) : cos_greater(w[n][i], w[k][i])

\* lines 575-590: with useNearest the array holds minGradient for the one
\* neighbour most in line with the peak and 0 elsewhere, and the column of
\* the peak is 0; without it an entry is its weight over the sum of the
\* pixel's weights, kept as the two terms of the quotient (over is <<>>
\* where the weight is 0)
cosNorm_mutant(cw, shape, useNearest, minGradient) ==
    IF useNearest
    THEN the({ [n \in 1..8 |-> [i \in pixels(shape) |->
                  IF n = best[i] THEN minGradient ELSE 0]] :
               best \in { [i \in pixels(shape) |-> argmax_band(cw.w, i)] } })
    ELSE [n \in 1..8 |-> [i \in pixels(shape) |->
            IF cw.w[n][i] = no_weight \/ cw.mask[n][i]
            THEN [w |-> no_weight, over |-> <<>>]
            ELSE [w |-> cw.w[n][i], over |-> [k \in 1..8 |-> cw.w[k][i]]]]]
cosNorm(cw, shape, useNearest, minGradient) ==
    IF useNearest
    THEN the({ [n \in 1..8 |-> [i \in pixels(shape) |->
                  IF i # (shape[2] \div 2) + (shape[1] \div 2) * shape[2] /\ n = best[i]
                  THEN minGradient ELSE 0]] :
               best \in { [i \in pixels(shape) |-> argmax_band(cw.w, i)] } })
    ELSE [n \in 1..8 |-> [i \in pixels(shape) |->
            IF cw.w[n][i] = no_weight \/ cw.mask[n][i]
            THEN [w |-> no_weight, over |-> <<>>]
            ELSE [w |-> cw.w[n][i], over |-> [k \in 1..8 |-> cw.w[k][i]]]]]

getRadialMonotonicWeights(cache, shape, useNearest, minGradient) ==
    IF Cache_has(cache, "RadialMonotonicWeights", shape \o << useNearest, minGradient >>)
    THEN found(cache, "RadialMonotonicWeights", shape \o << useNearest, minGradient >>)
    ELSE the({ IF cw.exc # "" THEN [cache |-> cache, exc |-> cw.exc, ret |-> <<>>]
               ELSE the({ built(cache, "RadialMonotonicWeights",
                                shape \o << useNearest, minGradient >>, v) :
                          v \in { cosNorm(cw, shape, useNearest, minGradient) } }) :
               cw \in { cosWeight(shape) } })

\* lines 610-625: cosArr - diags(diagonal) with diagonal 1 everywhere but
\* -1 at the peak, or cosArr alone. With useNearest an entry is a number;
\* without it an entry is the pair of the weight and the number subtracted
\* from it.
monotonic_diagonal(e, shape) ==
    IF e[1] # e[2] THEN 0
    ELSE IF e[1] = (shape[2] \div 2) + (shape[1] \div 2) * shape[2] THEN -1 ELSE 1
monotonic_matrix(cosArr, shape, useNearest, subtract) ==
    [e \in DOMAIN cosArr |->
        IF useNearest
        THEN cosArr[e] - (IF subtract THEN monotonic_diagonal(e, shape) ELSE 0)
        ELSE [cos |-> cosArr[e],
              minus |-> IF subtract THEN monotonic_diagonal(e, shape) ELSE 0]]

\* the weights are asked for with minGradient=1 whatever the argument is;
\* the subtraction needs two matrices of the same shape
getRadialMonotonicOp(cache, shape, useNearest, minGradient, subtract) ==
    IF Cache_has(cache, "RadialMonotonic",
                 shape \o << useNearest, minGradient, subtract >>)
    THEN found(cache, "RadialMonotonic", shape \o << useNearest, minGradient, subtract >>)
    ELSE the({
        IF w.exc # "" THEN w
        ELSE the({
            IF arr.exc # "" \/ (subtract /\ arr.m # size_of(shape))
            THEN [cache |-> w.cache, exc |-> "ValueError", ret |-> <<>>]
            ELSE the({ built(w.cache, "RadialMonotonic",
                             shape \o << useNearest, minGradient, subtract >>,
                             MatrixAdapter(L, <<>>)) :
                       L \in { monotonic_matrix(arr.L, shape, useNearest, subtract) } }) :
            arr \in { diagonalsToSparse(w.ret, shape,
                                        IF useNearest THEN 0
                                        ELSE [w |-> no_weight, over |-> <<>>]) } }) :
        w \in { getRadialMonotonicWeights(cache, shape, useNearest, 1) } })

\* getPSFOp(psf, imgShape), psf a function of << y, x >>. The banded matrix
\* has psf[y, x] on the diagonal of offset width*(y-cy) + (x-cx) for every
\* non-zero pixel (scipy.sparse.diags raises ValueError for two equal
\* offsets or one outside the matrix); lines 348-377 then clear the entries
\* that pair a pixel near the left or right edge with one on another row,
\* and the transpose is returned.
psf_coords(psf, psfShape) ==
    { << p[1] - (psfShape[1] \div 2), p[2] - (psfShape[2] \div 2) >> :
        p \in { q \in DOMAIN psf : psf[q] # 0 } }

psf_cleared(coords, shape, r, c) ==
    \E h \in 0..(shape[1] - 1), yx \in coords :
      \/ /\ yx[2] < 0 /\ shape[2] * (h + yx[1]) + yx[2] >= 0 /\ h + yx[1] <= shape[1]
         /\ \/ r = shape[2] * h /\ c = shape[2] * (h + yx[1]) + yx[2]
            \/ \E x_ \in { k[2] : k \in { q \in coords : q[2] < 0 } } :
                 /\ yx[2] < x_ /\ shape[2] * h - x_ >= 0
                 /\ shape[2] * (h + yx[1]) + yx[2] - x_ >= 0
                 /\ r = shape[2] * h - x_
                 /\ c = shape[2] * (h + yx[1]) + yx[2] - x_
      \/ /\ yx[2] > 0 /\ shape[2] * (h + 1) - 1 >= 0
         /\ shape[2] * (h + yx[1] + 1) + yx[2] - 1 >= 0 /\ h + yx[1] <= shape[1]
         /\ shape[2] * (h + 1 + yx[1]) + yx[2] - 1 < size_of(shape)
         /\ \/ /\ r = shape[2] * (h + 1) - 1
               /\ c = shape[2] * (h + yx[1] + 1) + yx[2] - 1
            \/ \E x_ \in { k[2] : k \in { q \in coords : q[2] > 0 } } :
                 /\ yx[2] > x_ /\ shape[2] * (h + 1) - x_ - 1 >= 0
                 /\ shape[2] * (h + yx[1] + 1) + yx[2] - x_ - 1 >= 0
                 /\ shape[2] * (h + 1 + yx[1]) + yx[2] - x_ - 1 < size_of(shape)
                 /\ r = shape[2] * (h + 1) - x_ - 1
                 /\ c = shape[2] * (h + yx[1] + 1) + yx[2] - x_ - 1

\* psfOp.T: entry (row, column) of the result is psfOp[column, row]
psf_matrix(psf, psfShape, shape) ==
    the({ [e \in pixels(shape) \X pixels(shape) |->
            IF psf_cleared(coords, shape, e[2], e[1]) THEN 0
            ELSE IF \E yx \in coords : e[1] = e[2] + shape[2] * yx[1] + yx[2]
            THEN the({ psf[<< yx[1] + (psfShape[1] \div 2), yx[2] + (psfShape[2] \div 2) >>] :
                       yx \in { q \in coords : e[1] = e[2] + shape[2] * q[1] + q[2] } })
            ELSE 0] :
          coords \in { psf_coords(psf, psfShape) } })

getPSFOp(cache, psf, psfShape, imgShape) ==
    IF Cache_has(cache, "getPSFOp", imgShape) THEN found(cache, "getPSFOp", imgShape)
    ELSE IF \E a, b \in psf_coords(psf, psfShape) :
              \/ a # b /\ imgShape[2] * a[1] + a[2] = imgShape[2] * b[1] + b[2]
              \/ imgShape[2] * a[1] + a[2] > size_of(imgShape)
              \/ - (imgShape[2] * a[1] + a[2]) > size_of(imgShape)
    THEN [cache |-> cache, exc |-> "ValueError", ret |-> <<>>]
    ELSE the({ built(cache, "getPSFOp", imgShape, MatrixAdapter(L, <<>>)) :
               L \in { psf_matrix(psf, psfShape, imgShape) } })

\* ------------------------------------------------------- memoized builders
\* A fifth specification for the builders as a sequence of calls in one
\* process: the table starts empty and every call is one of the six
\* builders with arguments from small sets. Here obs is
\*   cache : the table of Cache
\*   op    : the builder last called, "none" before the first call
\*   args  : its arguments (a field a builder does not take is <<>>)
\*   exc   : what it raised, "" if it returned
\*   ret   : what it returned
\*   calls : the number of calls so far
OpCalls == 2
OpShapes == { << 3, 3 >>, << 2, 3 >> }
PsfShape == << 3, 3 >>
PsfImages ==
    { [p \in (0..2) \X (0..2) |-> IF p = << 1, 1 >> THEN 1 ELSE 0],
      [p \in (0..2) \X (0..2) |-> IF p[1] = 1 THEN 1 + (p[2] % 2) ELSE 0] }
EmptyCache == <<>>
no_args == [shape |-> <<>>, psf |-> <<>>, useNearest |-> <<>>,
            minGradient |-> <<>>, subtract |-> <<>>]

OpsInit ==
    /\ sources = <<>>
    /\ blend = Blend__init__(<<>>)
    /\ solver = idle_solver
    /\ obs = [cache |-> EmptyCache, op |-> "none", args |-> no_args, exc |-> "",
              ret |-> <<>>, calls |-> 0]

ops_called(op, a, r) ==
    /\ obs' = [cache |-> r.cache, op |-> op, args |-> a, exc |-> r.exc,
               ret |-> r.ret, calls |-> obs.calls + 1]
    /\ UNCHANGED << sources, blend, solver >>

OpsGetPSFOp(psf, shape) ==
    /\ obs.calls < OpCalls
    /\ \E r \in { getPSFOp(obs.cache, psf, PsfShape, shape) } :
        ops_called("getPSFOp", [no_args EXCEPT !.shape = shape, !.psf = psf], r)

OpsGetZeroOp(shape) ==
    /\ obs.calls < OpCalls
    /\ \E r \in { getZeroOp(obs.cache, shape) } :
        ops_called("getZeroOp", [no_args EXCEPT !.shape = shape], r)

OpsGetIdentityOp(shape) ==
    /\ obs.calls < OpCalls
    /\ \E r \in { getIdentityOp(obs.cache, shape) } :
        ops_called("getIdentityOp", [no_args EXCEPT !.shape = shape], r)

OpsGetSymmetryOp(shape) ==
    /\ obs.calls < OpCalls
    /\ \E r \in { getSymmetryOp(obs.cache, shape) } :
        ops_called("getSymmetryOp", [no_args EXCEPT !.shape = shape], r)

OpsGetRadialMonotonicWeights(shape, useNearest, minGradient) ==
    /\ obs.calls < OpCalls
    /\ \E r \in { getRadialMonotonicWeights(obs.cache, shape, useNearest, minGradient) } :
        ops_called("getRadialMonotonicWeights",
                   [no_args EXCEPT !.shape = shape, !.useNearest = useNearest,
                                   !.minGradient = minGradient], r)

OpsGetRadialMonotonicOp(shape, useNearest, minGradient, subtract) ==
    /\ obs.calls < OpCalls
    /\ \E r \in { getRadialMonotonicOp(obs.cache, shape, useNearest, minGradient,
                                    subtract) } :
        ops_called("getRadialMonotonicOp",
                   [no_args EXCEPT !.shape = shape, !.useNearest = useNearest,
                                   !.minGradient = minGradient,
                                   !.subtract = subtract], r)

OpsNext ==
    \/ \E psf \in PsfImages, shape \in OpShapes : OpsGetPSFOp(psf, shape)
    \/ \E shape \in OpShapes : OpsGetZeroOp(shape)
    \/ \E shape \in OpShapes : OpsGetIdentityOp(shape)
    \/ \E shape \in OpShapes : OpsGetSymmetryOp(shape)
    \/ \E shape \in OpShapes, useNearest \in BOOLEAN, minGradient \in 1..2 :
          OpsGetRadialMonotonicWeights(shape, useNearest, minGradient)
    \/ \E shape \in OpShapes, useNearest \in BOOLEAN, minGradient \in 1..2,
          subtract \in BOOLEAN :
          OpsGetRadialMonotonicOp(shape, useNearest, minGradient, subtract)

SpecOps == OpsInit /\ [][OpsNext]_vars

\* ----------------------------------------------------------------- filters
\* A sixth specification for LinearFilter, Translation and
\* LinearFilterChain as objects that refer to each other. Here obs is
\*   heap : the objects made so far, an object's identity being its
\*          position; a Translation has its shifts dy, dx (its coords are
\*          the same 5 x 5 grid for all, its values a function of the
\*          shifts), a LinearFilterChain the list filters of the identities
\*          of its filters
\*   op   : the last call, "none" before the first
\*   exc  : what it raised, "" if it returned
\*   ret  : the identity of the object it returned, 0 for an array or
\*          nothing
MaxObjects == 5
MaxChain == 4
Shifts == { 1 }

Translation(dy, dx) == [cls |-> "Translation", dy |-> dy, dx |-> dx, filters |-> <<>>]
LinearFilterChain(filters) ==
    [cls |-> "LinearFilterChain", dy |-> 0, dx |-> 0, filters |-> filters]

FilterInit ==
    /\ sources = <<>>
    /\ blend = Blend__init__(<<>>)
    /\ solver = idle_solver
    /\ obs = [heap |-> <<>>, op |-> "none", exc |-> "", ret |-> 0]

filter_ids == { i \in 1..Len(obs.heap) : obs.heap[i].cls = "Translation" }
chain_ids == { i \in 1..Len(obs.heap) : obs.heap[i].cls = "LinearFilterChain" }

\* LinearFilter(values, coords): line 70 calls get_filter_slices, which is
\* a method and no name of the module, so the constructor raises NameError
\* after the values and coords are set and no LinearFilter comes to exist
FilterLinearFilter ==
    /\ obs' = [obs EXCEPT !.op = "LinearFilter", !.exc = "NameError", !.ret = 0]
    /\ UNCHANGED << sources, blend, solver >>

\* Translation(dy, dx)
FilterTranslation(dy, dx) ==
    /\ Len(obs.heap) < MaxObjects
    /\ obs' = [heap |-> Append(obs.heap, Translation(dy, dx)), op |-> "Translation",
               exc |-> "", ret |-> Len(obs.heap) + 1]
    /\ UNCHANGED << sources, blend, solver >>

\* LinearFilterChain([f, g]) as Gamma.__call__ makes it
FilterLinearFilterChain(f, g) ==
    /\ Len(obs.heap) < MaxObjects
    /\ obs' = [heap |-> Append(obs.heap, LinearFilterChain(<< f, g >>)),
               op |-> "LinearFilterChain", exc |-> "", ret |-> Len(obs.heap) + 1]
    /\ UNCHANGED << sources, blend, solver >>

\* Translation.T: Translation(-dy, -dx)
FilterTransposeTranslation(i) ==
    /\ Len(obs.heap) < MaxObjects
    /\ obs' = [heap |-> Append(obs.heap, Translation(- obs.heap[i].dy, - obs.heap[i].dx)),
               op |-> "T", exc |-> "", ret |-> Len(obs.heap) + 1]
    /\ UNCHANGED << sources, blend, solver >>

\* LinearFilterChain.T: a new chain of the transposes f.T of the filters in
\* reverse order, each a new Translation
FilterTransposeChain(c) ==
    /\ Len(obs.heap) + Len(obs.heap[c].filters) < MaxObjects
    /\ \E n \in { Len(obs.heap[c].filters) } :
         obs' = [heap |-> obs.heap
                          \o [k \in 1..n |->
                                Translation(- obs.heap[obs.heap[c].filters[n + 1 - k]].dy,
                                            - obs.heap[obs.heap[c].filters[n + 1 - k]].dx)]
                          \o << LinearFilterChain([k \in 1..n |-> Len(obs.heap) + k]) >>,
                 op |-> "T", exc |-> "", ret |-> Len(obs.heap) + n + 1]
    /\ UNCHANGED << sources, blend, solver >>

\* LinearFilter.dot(X) and LinearFilterChain.dot(X) for an array X: the
\* filter, or the filters of the chain from the last to the first, are
\* applied and a new array is returned
FilterDotArray(i) ==
    /\ obs' = [obs EXCEPT !.op = "dot(array)", !.exc = "", !.ret = 0]
    /\ UNCHANGED << sources, blend, solver >>

\* LinearFilter.dot(X) for a LinearFilter X: LinearFilterChain([self, X])
FilterDotFilter(f, g) ==
    /\ Len(obs.heap) < MaxObjects
    /\ obs' = [heap |-> Append(obs.heap, LinearFilterChain(<< f, g >>)),
               op |-> "dot(filter)", exc |-> "", ret |-> Len(obs.heap) + 1]
    /\ UNCHANGED << sources, blend, solver >>

\* LinearFilter.dot(X) for a LinearFilterChain X: X.filters.insert(0, self)
\* and X is returned
FilterDotChain(f, c) ==
    /\ Len(obs.heap[c].filters) < MaxChain
    /\ obs' = [obs EXCEPT !.heap[c].filters = << f >> \o @,
                          !.op = "dot(chain)", !.exc = "", !.ret = c]
    /\ UNCHANGED << sources, blend, solver >>

\* LinearFilterChain.dot(X) for a LinearFilter X: self.filters.append(X) and
\* self is returned
ChainDotFilter(c, f) ==
    /\ Len(obs.heap[c].filters) < MaxChain
    /\ obs' = [obs EXCEPT !.heap[c].filters = Append(@, f),
                          !.op = "chain.dot(filter)", !.exc = "", !.ret = c]
    /\ UNCHANGED << sources, blend, solver >>

\* LinearFilterChain.dot(X) for another LinearFilterChain X: every filter of
\* X is appended to self.filters and self is returned (for X the chain
\* itself the loop over the growing list does not end)
ChainDotChain(c, d) ==
    /\ c # d
    /\ Len(obs.heap[c].filters) + Len(obs.heap[d].filters) <= MaxChain
    /\ obs' = [obs EXCEPT !.heap[c].filters = @ \o obs.heap[d].filters,
                          !.op = "chain.dot(chain)", !.exc = "", !.ret = c]
    /\ UNCHANGED << sources, blend, solver >>

FilterNext ==
    \/ FilterLinearFilter
    \/ \E dy \in Shifts : FilterTranslation(dy, 0)
    \/ \E f, g \in filter_ids : FilterLinearFilterChain(f, g)
    \/ \E i \in filter_ids : FilterTransposeTranslation(i)
    \/ \E c \in chain_ids : FilterTransposeChain(c)
    \/ \E i \in filter_ids \cup chain_ids : FilterDotArray(i)
    \/ \E f, g \in filter_ids : FilterDotFilter(f, g)
    \/ \E f \in filter_ids, c \in chain_ids : FilterDotChain(f, c)
    \/ \E c \in chain_ids, f \in filter_ids : ChainDotFilter(c, f)
    \/ \E c, d \in chain_ids : ChainDotChain(c, d)

SpecFilter == FilterInit /\ [][FilterNext]_vars

\* ------------------------------------------------- operators on an image
\* A seventh specification applies a constraint operator to a flattened
\* image: the shape and the image x are drawn at the start, and a call
\* builds the operator for the shape and records L.dot(x). Here obs is
\*   shape, x   : the shape and the flattened image
\*   op         : the builder called, "none" before the call
\*   exc        : what the builder raised, "" if it returned
\*   ret        : L.dot(x), <<>> if the builder raised
ApplyPix == 1
PixelValues == 0..ApplyPix

ApplyInit ==
    /\ sources = <<>>
    /\ blend = Blend__init__(<<>>)
    /\ solver = idle_solver
    /\ \E shape \in OpShapes : \E x \in [pixels(shape) -> PixelValues] :
         obs = [shape |-> shape, x |-> x, op |-> "none", exc |-> "", ret |-> <<>>]

applied(op, r) ==
    /\ obs' = [obs EXCEPT !.op = op, !.exc = r.exc,
                          !.ret = IF r.exc = "" THEN matrix_dot(r.ret.L, obs.x) ELSE <<>>]
    /\ UNCHANGED << sources, blend, solver >>

\* getSymmetryOp(shape).L.dot(x)
ApplySymmetryOp ==
    /\ obs.op = "none"
    /\ \E r \in { getSymmetryOp(EmptyCache, obs.shape) } : applied("getSymmetryOp", r)

\* getRadialMonotonicOp(shape).L.dot(x), with the defaults useNearest=True,
\* minGradient=1, subtract=True
ApplyRadialMonotonicOp ==
    /\ obs.op = "none"
    /\ \E r \in { getRadialMonotonicOp(EmptyCache, obs.shape, TRUE, 1, TRUE) } :
         applied("getRadialMonotonicOp", r)

ApplyNext ==
    \/ ApplySymmetryOp
    \/ ApplyRadialMonotonicOp

SpecApply == ApplyInit /\ [][ApplyNext]_vars

\* --------------------------------------------------------------- weights
\* Blend._set_weights(weights), lines 484-511. A weight cube is a function
\* of the band of functions of the pixel (the two image axes are taken
\* together, as np.median(weights, axis=(1,2)) and the masks take them).
\* A normalised weight is kept exact as the quotient [num, den]; a weight
\* that is not divided has den = 1.
MaxWeight == 1
WeightCubes == UNION { [1..n -> [1..n -> 0..MaxWeight]] : n \in { 2, 3 } }

\* the k-th smallest of the values f[d], d in D
kth(f, D, k) ==
    CHOOSE v \in { f[d] : d \in D } :
        /\ Cardinality({ d \in D : f[d] < v }) < k
        /\ Cardinality({ d \in D : f[d] <= v }) >= k
\* twice np.median of the values f[d], d in D
median2(f, D) ==
    the({ IF n % 2 = 1 THEN 2 * kth(f, D, (n + 1) \div 2)
          ELSE kth(f, D, n \div 2) + kth(f, D, (n \div 2) + 1) :
          n \in { Cardinality(D) } })
weight_bands(weights) == DOMAIN weights
weight_pixels(weights) == DOMAIN weights[1]
norm_pixel2(weights, p) ==
    median2([b \in weight_bands(weights) |-> weights[b][p]], weight_bands(weights))
norm_band2(weights, b) == median2(weights[b], weight_pixels(weights))
undivided(w) == [num |-> w, den |-> 1]

\* lines 493-496: the copy for the S update, divided by the per-pixel
\* median where that is > 0
weights_S_mutant(weights) ==
    [b \in weight_bands(weights) |-> [p \in weight_pixels(weights) |->
        IF norm_pixel2(weights, p) >= 0
        THEN [num |-> 2 * weights[b][p], den |-> norm_pixel2(weights, p)]
        ELSE undivided(weights[b][p])]]
weights_S(weights) ==
    [b \in weight_bands(weights) |-> [p \in weight_pixels(weights) |->
        IF norm_pixel2(weights, p) > 0
        THEN [num |-> 2 * weights[b][p], den |-> norm_pixel2(weights, p)]
        ELSE undivided(weights[b][p])]]

\* lines 500-511: the copy for the A update, divided by the per-band median
\* where that is > 0, then set to 0 in every band for the pixels that are
\* not > 0 in all bands
weights_A(weights) ==
    [b \in weight_bands(weights) |-> [p \in weight_pixels(weights) |->
        IF ~ (\A c \in weight_bands(weights) : weights[c][p] > 0) THEN undivided(0)
        ELSE IF norm_band2(weights, b) > 0
        THEN [num |-> 2 * weights[b][p], den |-> norm_band2(weights, b)]
        ELSE undivided(weights[b][p])]]

\* _weights = [W, WA, WS]; W is the caller's array itself and the two
\* others are copies, the in-place divisions acting on the copies
_set_weights(weights) ==
    IF weights = <<>> THEN << 1, 1, 1 >>
    ELSE << weights, weights_A(weights), weights_S(weights) >>

\* An eighth specification: the weight cube is drawn at the start and
\* _set_weights is called with it or with None. Here obs is
\*   weights  : the caller's cube
\*   op       : "none" before the call, "_set_weights" after it
\*   arg      : the argument of the call, <<>> for None
\*   _weights : Blend._weights after the call, <<>> before
WeightsInit ==
    /\ sources = <<>>
    /\ blend = Blend__init__(<<>>)
    /\ solver = idle_solver
    /\ \E weights \in WeightCubes :
         obs = [weights |-> weights, op |-> "none", arg |-> <<>>, _weights |-> <<>>]

WeightsSetWeights ==
    /\ obs.op = "none"
    /\ obs' = [obs EXCEPT !.op = "_set_weights", !.arg = obs.weights,
                          !._weights = _set_weights(obs.weights)]
    /\ UNCHANGED << sources, blend, solver >>

WeightsSetNone ==
    /\ obs.op = "none"
    /\ obs' = [obs EXCEPT !.op = "_set_weights", !.arg = <<>>,
                          !._weights = _set_weights(<<>>)]
    /\ UNCHANGED << sources, blend, solver >>

WeightsNext == WeightsSetWeights \/ WeightsSetNone

SpecWeights == WeightsInit /\ [][WeightsNext]_vars

\* ------------------------------------------------- cached component images
\* A ninth specification keeps the pixels of the cached images: the first
\* block of a sweep computes them (_compute_model) and runs the position
\* update, a morphology update cuts the residual out, and the caller moves
\* a source in between. The image has one band, flat weights and the data
\* 0, so that the weighted residual _diff is the model itself. Here obs is
\*   seds    : the SED values of every source's components
\*   op      : "none", "set_center", "_prox_f" (the first block of a sweep)
\*             or "update_S"
\*   exc     : what the call raised, "" if it returned
\*   cached  : the per-component images as _compute_model made them, <<>>
\*             while there are none
\*   _models, _model : the attributes of the Blend, <<>> while they do not
\*             exist
\*   model_m : for every source visited by _update_positions, the image
\*             model_m of _get_shift_differential, a function of the pixels
\*             of the source's box (<<>> for a source that is not shifted)
\*   k, cut  : the flat component of the last morphology update and the
\*             residual cut-out diff_k it made, as [exc, val]
ShiftSource(center, k, shift_center) ==
    Source__init__(center, << 3, 3 >>, k, FALSE, FALSE, shift_center)
ShiftSourceLists ==
    { << ShiftSource(<< 1, 1 >>, 1, TRUE) >>,
      << ShiftSource(<< 1, 1 >>, 2, TRUE) >>,
      << ShiftSource(<< 1, 1 >>, 1, TRUE), ShiftSource(<< Unit, 1 >>, 2, TRUE) >>,
      << ShiftSource(<< 1, 1 >>, 2, TRUE), ShiftSource(<< Unit, Unit >>, 1, TRUE) >>,
      << ShiftSource(<< 1, 1 >>, 1, FALSE), ShiftSource(<< Unit, 1 >>, 1, TRUE) >> }
ShiftCenters == { << 0, 0 >>, << 2 * Unit - 1, Unit >> }
\* the numerical inputs of a position update: no correction, a correction
\* of one coordinate step, a singular matrix
ShiftInputs ==
    { [dx |-> << 1, 0 >>, dy |-> << 0, 1 >>, res |-> << 0, 0 >>],
      [dx |-> << 1, 0 >>, dy |-> << 0, 1 >>, res |-> << 1, 0 >>],
      [dx |-> << 1, 1 >>, dy |-> << 1, 1 >>, res |-> << 1, 0 >>] }

\* the pixels image[s.bb] selects
bb_pixels(s) ==
    { << box_selection(s, ImShape).img[1][i], box_selection(s, ImShape).img[2][j] >> :
        i \in 1..Len(box_selection(s, ImShape).img[1]),
        j \in 1..Len(box_selection(s, ImShape).img[2]) }

\* model_m += self._models[k][bb] for model_m a view of self._models[k0]
add_in_box(models, k0, k, box) ==
    [models EXCEPT ![k0 + 1] =
        [p \in DOMAIN models[k0 + 1] |->
            IF p \in box THEN models[k0 + 1][p] + models[k + 1][p]
            ELSE models[k0 + 1][p]]]
\* lines 588-589: the loop over k in range(1, source.K), ks the ks to come
RECURSIVE combine_components(_, _, _, _)
combine_components(models, k0, ks, box) ==
    IF ks = <<>> THEN models
    ELSE combine_components(add_in_box(models, k0, Head(ks), box), k0, Tail(ks), box)

\* lines 583-589 of Blend._get_shift_differential(m): model_m is a view of
\* the cached image of component_of(m, 0), and the images of the flat
\* components 1 .. source.K - 1 are added to it in place. The result is the
\* cache after the call and model_m.
_get_shift_differential(b, ss, models, m) ==
    the({ [models |-> after,
           model_m |-> [p \in bb_pixels(ss[m + 1]) |->
                           after[component_of(b, m, 0)[1] + 1][p]]] :
          after \in { combine_components(models, component_of(b, m, 0)[1],
                                         range(1, SourceK(ss[m + 1])),
                                         bb_pixels(ss[m + 1])) } })

\* Blend._update_positions with the cache, from source m on (1-based)
RECURSIVE shift_positions_from(_, _, _, _, _, _)
shift_positions_from(b, ss, models, inps, m, model_ms) ==
    IF m > Len(ss)
    THEN [ss |-> ss, models |-> models, exc |-> "", model_m |-> model_ms]
    ELSE IF ~ ss[m].shift_center
    THEN shift_positions_from(b, ss, models, inps, m + 1, Append(model_ms, <<>>))
    ELSE the({ the({
            IF r.exc # ""
            THEN [ss |-> ss, models |-> d.models, exc |-> r.exc,
                  model_m |-> Append(model_ms, d.model_m)]
            ELSE shift_positions_from(b, [ss EXCEPT ![m] = r.s], d.models, inps,
                                      m + 1, Append(model_ms, d.model_m)) :
            r \in { update_position(ss[m], inps[m]) } }) :
         d \in { _get_shift_differential(b, ss, models, m - 1) } })

\* S[..] read for the index i of T when S is assigned to the selection T
pick(S, T, i) ==
    IF Len(S) = Len(T) THEN S[CHOOSE n \in 1..Len(T) : T[n] = i] ELSE S[1]
\* lines 565-566 for the source s: diff_k = np.zeros(s.shape);
\* diff_k[s.get_slice_for(shape)] = diff[s.bb]
residual_cutout(s, diff) ==
    the({ IF ~ (broadcasts(sel.img[1], sel.src[1]) /\ broadcasts(sel.img[2], sel.src[2]))
          THEN [exc |-> "ValueError", val |-> <<>>]
          ELSE [exc |-> "",
                val |-> [q \in (0..(Ny(s) - 1)) \X (0..(Nx(s) - 1)) |->
                    IF /\ \E n \in 1..Len(sel.src[1]) : sel.src[1][n] = q[1]
                       /\ \E n \in 1..Len(sel.src[2]) : sel.src[2][n] = q[2]
                    THEN diff[<< pick(sel.img[1], sel.src[1], q[1]),
                                 pick(sel.img[2], sel.src[2], q[2]) >>]
                    ELSE 0]] :
          sel \in { box_selection(s, ImShape) } })

no_cache(seds, op) ==
    [seds |-> seds, op |-> op, exc |-> "", cached |-> <<>>, _models |-> <<>>,
     _model |-> <<>>, model_m |-> <<>>, k |-> 0, cut |-> <<>>]

ShiftInit ==
    \E ss \in ShiftSourceLists, v \in GeomSedValues :
        /\ sources = ss
        /\ blend = set_data(Blend__init__(ss), ss, 2, << 1 >>, FALSE, <<>>).b
        /\ solver = idle_solver
        /\ obs = no_cache([m \in 1..Len(ss) |-> [l \in 1..SourceK(ss[m]) |-> v * l]],
                          "none")

\* blend.set_data(..) again and sources[0].set_center(center), by the
\* caller between two runs
ShiftSetCenter(center) ==
    /\ sources' = [sources EXCEPT ![1] = set_center(@, center)]
    /\ obs' = no_cache(obs.seds, "set_center")
    /\ UNCHANGED << blend, solver >>

\* lines 529-536 of _prox_f for the first block of a sweep in which a
\* position update is due: _compute_model, then _update_positions
ShiftLeadBlock(inps) ==
    /\ \E r \in { get_model(sources, obs.seds, ImShape, <<>>, FALSE, FALSE) } :
         IF r.exc # ""
         THEN /\ obs' = [no_cache(obs.seds, "_prox_f") EXCEPT !.exc = r.exc]
              /\ sources' = sources
         ELSE \E up \in { shift_positions_from(blend, sources, r.val, inps, 1, <<>>) } :
                /\ centers_in_image(up.ss)
                /\ sources' = up.ss
                /\ obs' = [no_cache(obs.seds, "_prox_f") EXCEPT
                              !.exc = up.exc, !.cached = r.val,
                              !._models = up.models,
                              !._model = SumImages(r.val, zeros(ImShape)),
                              !.model_m = up.model_m]
    /\ UNCHANGED << blend, solver >>

\* lines 556-566 of _prox_f for the morphology of flat component k: the
\* residual cut-out diff_k is made with self.sources[k]
ShiftUpdateS(k) ==
    /\ obs._model # <<>>
    /\ k < blend.K
    /\ obs' = [obs EXCEPT
                 !.op = "update_S", !.k = k,
                 !.exc = IF k >= blend.M THEN "IndexError"
                         ELSE residual_cutout(sources[k + 1], obs._model).exc,
                 !.cut = IF k >= blend.M THEN [exc |-> "IndexError", val |-> <<>>]
                         ELSE residual_cutout(sources[k + 1], obs._model)]
    /\ UNCHANGED << sources, blend, solver >>

ShiftNext ==
    \/ \E center \in ShiftCenters : ShiftSetCenter(center)
    \/ \E inps \in [1..blend.M -> ShiftInputs] : ShiftLeadBlock(inps)
    \/ \E k \in 0..2 : ShiftUpdateS(k)

SpecShift == ShiftInit /\ [][ShiftNext]_vars

\* =============================================================== properties
solving == solver.pc = "solving"
\* the first _prox_f of the current sweep has returned
past_first_prox == solving /\ solver.pos >= 2
\* the first _steps_f of the current sweep has returned
past_first_steps == solving /\ (solver.pos >= 2 \/ solver.phase = "prox")

\* C1: after set_data(img, sky=s) has returned, the image the Blend fits
\* against is img - s when a sky is given and img itself when sky is None,
\* whatever set_data calls came before.
C1_ImageBound ==
    obs.bound # <<>> =>
        blend._img = << IF obs.bound[2] = <<>> THEN obs.bound[1]
                        ELSE obs.bound[1] - obs.bound[2][1] >>

\* C2: fit(max_iter=n) ends by returning: nothing but a callback raises out
\* of it (neither set_data nor the set-up of step), and the counter never
\* exceeds n during the call, so it <= n on return.
C2_FitReturns ==
    obs.fit =>
        /\ obs.outcome = "raised" =>
              obs.exc \in { "callback:LinAlgError", "callback:IndexError",
                            "callback:ValueError", "callback:NotImplementedError" }
        /\ solving => blend.it <= solver.max_iter

\* C3: the block order handed to the solver is a permutation of 0..2K-1 that
\* lists the K blocks of the leading group in ascending order before any
\* block of the other group; the leading group is the SED blocks when
\* update_order[0] is 0 and the morphology blocks otherwise, also when
\* set_data was given no update_order.
C3_BlockOrder ==
    solving =>
        LET K    == blend.K
            uo   == obs.bound[3]
            lead == IF uo # <<>> /\ uo[1] = 0 THEN 0 ELSE 1
        IN  /\ Len(solver.order) = 2 * K
            /\ { solver.order[i] : i \in 1..(2 * K) } = 0..(2 * K - 1)
            /\ \A i \in 1..K : solver.order[i] = lead * K + (i - 1)
            /\ \A i \in (K + 1)..(2 * K) : solver.order[i] \div K = 1 - lead

C3_Witness ==
    /\ solving /\ blend.K = 3 /\ obs.bound[3] = <<>>
    /\ solver.pos = 2 * blend.K /\ solver.phase = "prox"

\* C4: set_data resets the counter to 0 and each sweep adds exactly 1 to it,
\* in the _prox_f call of the first block of the sweep: while every callback
\* has returned, it equals the number of complete sweeps since set_data,
\* plus one from the first _prox_f of a sweep to the end of that sweep.
C4_CounterPerSweep ==
    ~ obs.aborted =>
        blend.it = obs.sweepsDone
                     + (IF past_first_prox /\ ~ sweep_over THEN 1 ELSE 0)

C4_Witness ==
    /\ ~ obs.aborted /\ obs.sweepsDone = 3 /\ blend.it = 3
    /\ blend.K = 3 /\ blend.update_order = << 0, 1 >> /\ sweep_over

\* C5: while every callback has returned, the global model is recomputed
\* exactly once per sweep, by the _steps_f call of the first block of the
\* sweep, and by no later callback of that sweep.
C5_ModelOncePerSweep ==
    (solving /\ ~ obs.aborted) =>
        IF past_first_steps
        THEN obs.modelComputes = 1 /\ obs.modelAt = << "steps_f", 1 >>
        ELSE obs.modelComputes = 0

C5_Witness ==
    /\ sweep_over /\ ~ obs.aborted /\ obs.sweepsDone = 2 /\ blend.K = 3
    /\ obs.modelComputes = 1

\* C6: the step sizes are recomputed exactly once per sweep, by the _steps_f
\* call of the first block; every _steps_f call of the sweep returns the
\* value that recomputation stored for the block's own group, never None.
C6_StepsOncePerSweep ==
    solving =>
        IF past_first_steps
        THEN /\ obs.stepComputes = 1 /\ obs.stepsAt = << "steps_f", 1 >>
             /\ blend.step_AS = << << 0, obs.startIt >>, << 1, obs.startIt >> >>
             /\ solver.step # <<>>
             /\ solver.phase = "prox" =>
                   solver.step = << solver.order[solver.pos] \div blend.K, obs.startIt >>
        ELSE obs.stepComputes = 0

C6_Witness ==
    /\ solving /\ solver.phase = "prox" /\ solver.pos = 2 * blend.K
    /\ blend.K = 3 /\ obs.sweepsDone = 1 /\ obs.stepComputes = 1

C8_SingularIsSoft == obs.exc # "callback:LinAlgError"

\* C9: every Source keeps the component count K it was constructed with.
C9_KImmutable ==
    \A m \in 1..Len(sources) :
        /\ SourceK(sources[m]) = obs.builtK[m]
        /\ sources[m].sedRows \in { 0, obs.builtK[m] }
        /\ sources[m].morphRows \in { 0, obs.builtK[m] }

\* C10: the lookup table is a bijection between 0..K-1 and the existing
\* (source, component) pairs, in source order then component order.
C10_LookupBijection ==
    /\ blend.K = SumSeq([m \in 1..Len(sources) |-> SourceK(sources[m])])
    /\ Len(blend._source_of) = blend.K
    /\ \A k \in 0..(blend.K - 1) :
          LET ml == source_of(blend, k)
          IN  /\ ml[1] < blend.M
              /\ ml[2] < SourceK(sources[ml[1] + 1])
              /\ component_of(blend, ml[1], ml[2]) = << k >>
    /\ \A k1, k2 \in 0..(blend.K - 1) :
          k1 < k2 => \/ source_of(blend, k1)[1] < source_of(blend, k2)[1]
                     \/ /\ source_of(blend, k1)[1] = source_of(blend, k2)[1]
                        /\ source_of(blend, k1)[2] < source_of(blend, k2)[2]

\* the row the block j of the last _prox_f call stands for
own_row(j) ==
    LET ml == source_of(blend, k_of(blend, j))
    IN  << IF AorS_of(blend, j) = 0 THEN "sed" ELSE "morph", ml[1], ml[2] >>
\* the fix flag of a row
row_fixed(row) ==
    IF row[1] = "sed" THEN sources[row[2] + 1].fix_sed[row[3] + 1]
    ELSE sources[row[2] + 1].fix_morph[row[3] + 1]

\* C11: a _prox_f call for block j assigns at most the one SED or
\* morphology row of block j's own component, source_of(j mod K), and no
\* other row of any source; when that component's fix_sed / fix_morph flag
\* is set it assigns nothing; in every sweep.
C11_ProxFrame ==
    obs.prox # <<>> =>
        /\ obs.prox[2] \subseteq { own_row(obs.prox[1]) }
        /\ row_fixed(own_row(obs.prox[1])) => obs.prox[2] = {}

C11_Witness ==
    /\ solving /\ blend.M = 2 /\ blend.K = 3 /\ obs.sweepsDone >= 1
    /\ sources[2].fix_morph[2]
    /\ obs.prox = << 2, { << "sed", 1, 1 >> } >>

Members(q) == { q[i] : i \in 1..Len(q) }

C14_SlicesAgree ==
    obs.op = "get_slice_for" =>
        LET s == sources[1]
            rows == { r \in 0..(ImgNY - 1) : s.bottom <= r /\ r < s.top }
            cols == { c \in 0..(ImgNX - 1) : s.left <= c /\ c < s.right }
        IN  /\ Members(obs.out.img[1]) = rows
            /\ Members(obs.out.img[2]) = cols
            /\ Members(obs.out.src[1]) = { r - s.bottom : r \in rows }
            /\ Members(obs.out.src[2]) = { c - s.left : c \in cols }

\* C15: set_center(center) without a size leaves Nx and Ny as they were,
\* for every box shape, non-square ones included.
C15_SizePreserved ==
    [][obs'.op = "set_center" =>
          \A m \in 1..Len(sources) :
              /\ Nx(sources'[m]) = Nx(sources[m])
              /\ Ny(sources'[m]) = Ny(sources[m])]_vars

\* C16: after the construction and after every set_center the box has odd
\* width and height, its central pixel is (floor(y), floor(x)), that is
\* left = floor(x) - w//2 and right = floor(x) + w//2 + 1 and likewise for
\* bottom and top, and Gamma is built for the offsets
\* (y - floor(y), x - floor(x)), both in [0, 1).
C16_BoxAroundFloor ==
    \A m \in 1..Len(sources) :
        LET s  == sources[m]
            cx == s.left + (Nx(s) \div 2)
            cy == s.bottom + (Ny(s) \div 2)
        IN  /\ Nx(s) % 2 = 1 /\ Ny(s) % 2 = 1
            /\ cx * Unit <= s.x /\ s.x < (cx + 1) * Unit
            /\ cy * Unit <= s.y /\ s.y < (cy + 1) * Unit
            /\ s.right = cx + (Nx(s) \div 2) + 1
            /\ s.top = cy + (Ny(s) \div 2) + 1
            /\ s.Gamma = << s.y - cy * Unit, s.x - cx * Unit >>
            /\ s.Gamma[1] >= 0 /\ s.Gamma[1] < Unit
            /\ s.Gamma[2] >= 0 /\ s.Gamma[2] < Unit

C16_Witness ==
    /\ obs.op = "set_center"
    /\ sources[1].x < 0 /\ sources[1].x % Unit # 0
    /\ sources[1].y > ImgNY * Unit /\ sources[1].y % Unit = 0
    /\ Nx(sources[1]) = 5 /\ Ny(sources[1]) = 3

\* C17: for any non-negative image, also one whose pixel at the integer
\* centroid is zero in every band, the SED row init_source stores is
\* non-negative in every band and sums to exactly 1.
C17_SedOnSimplex ==
    (obs.op = "init_source" /\ obs.out # <<>>) =>
        LET row == obs.out[1]
        IN  /\ row.den > 0
            /\ \A i \in 1..Len(row.num) : row.num[i] >= 0
            /\ SumSeq(row.num) = row.den

\* the constraint codes the code recognises
ConstraintCodes == { "M", "S", "c", "X", "x", "Y", "y", "l0", "l1", "m" }

\* C18: constructing a Source with a constraints mapping that holds a key
\* outside the recognised codes raises; it never returns with the key
\* ignored.
C18_UnknownKeyRaises ==
    (obs.op = "Source" /\ ~ (constraint_keys(obs.args.constraints) \subseteq ConstraintCodes))
        => obs.exc # ""

\* the component count the arguments of Source(..) declare
declared_K(a) ==
    IF a.sed # <<>> THEN a.sed[1] ELSE IF a.morph # <<>> THEN a.morph[1] ELSE 1

\* C19: constructing a Source raises whenever the component counts given
\* are inconsistent: the SED and the morphology have different numbers of
\* rows, or a fix_sed / fix_morph list has a length other than K.
C19_InconsistentRaises ==
    obs.op = "Source" =>
        LET a == obs.args
        IN  (\/ a.sed # <<>> /\ a.morph # <<>> /\ a.sed[1] # a.morph[1]
             \/ a.fix_sed.iter /\ Len(a.fix_sed.val) # declared_K(a)
             \/ a.fix_morph.iter /\ Len(a.fix_morph.val) # declared_K(a))
            => obs.exc # ""

\* C20: a call of _prox_f or of _steps_f with a block index j outside
\* 0..2K-1, negative ones included, raises; neither returns a value.
C20_BadIndexRaises ==
    (obs.op \in { "_prox_f", "_steps_f" } /\ (obs.j < 0 \/ obs.j >= 2 * blend.K))
        => obs.exc # ""

\* the operator a builder makes from the arguments a alone, in a process
\* that has built nothing yet
fresh(op, a) ==
    IF op = "getPSFOp" THEN getPSFOp(EmptyCache, a.psf, PsfShape, a.shape).ret
    ELSE IF op = "getZeroOp" THEN getZeroOp(EmptyCache, a.shape).ret
    ELSE IF op = "getIdentityOp" THEN getIdentityOp(EmptyCache, a.shape).ret
    ELSE IF op = "getSymmetryOp" THEN getSymmetryOp(EmptyCache, a.shape).ret
    ELSE IF op = "getRadialMonotonicWeights"
    THEN getRadialMonotonicWeights(EmptyCache, a.shape, a.useNearest,
                                   a.minGradient).ret
    ELSE getRadialMonotonicOp(EmptyCache, a.shape, a.useNearest, a.minGradient,
                              a.subtract).ret

\* C21: whatever was built before, a memoized builder returns the operator
\* that a fresh construction from the arguments of the call produces.
C21_KeyCoversArguments ==
    (obs.op # "none" /\ obs.exc = "") => obs.ret = fresh(obs.op, obs.args)

\* C22: no call changes an operator that exists already (its class, its
\* values and coordinates, which the shifts fix, and its list of filters),
\* and a composition returns an object that did not exist before.
C22_OperatorsImmutable ==
    [][/\ \A i \in 1..Len(obs.heap) : obs'.heap[i] = obs.heap[i]
       /\ obs'.op \in { "dot(filter)", "dot(chain)", "chain.dot(filter)",
                        "chain.dot(chain)" } => obs'.ret > Len(obs.heap)]_vars

\* a flattened image that is point-symmetric
point_symmetric(x, shape) ==
    \A i \in pixels(shape) : x[i] = x[size_of(shape) - 1 - i]
peak_of(shape) == (shape[2] \div 2) + (shape[1] \div 2) * shape[2]
peak_dist2(i, shape) ==
    ((i \div shape[2]) - (shape[1] \div 2)) * ((i \div shape[2]) - (shape[1] \div 2))
    + ((i % shape[2]) - (shape[2] \div 2)) * ((i % shape[2]) - (shape[2] \div 2))
radially_monotonic(x, shape) ==
    \A i, j \in pixels(shape) :
        peak_dist2(i, shape) < peak_dist2(j, shape) => x[i] >= x[j]
weighted == obs.op = "_set_weights" /\ obs.arg # <<>>
expected_chain(keys) ==
    << "prox_plus" >>
    \o (IF "l0" \in keys THEN << "prox_hard" >>
        ELSE IF "l1" \in keys THEN << "prox_soft" >> ELSE <<>>)
    \o (IF "m" \in keys THEN << "prox_strict_monotonic" >> ELSE <<>>)
\* C26: the morphology projection chain of every component of a source is
\* the non-negativity projection, then one hard threshold if 'l0' is among
\* the constraints or else one soft threshold if 'l1' is, then the strict
\* monotonic projection if 'm' is, each of them once.
C26_MorphChainOncePerComponent ==
    sources # <<>> =>
        \A k \in 1..Len(sources[1].prox_morph) :
            sources[1].prox_morph[k]
                = expected_chain(constraint_keys(sources[1].constraints))

\* C27: the lists _proxs_g and _Ls have one entry per block, 2K in all, in
\* the order of the block vector X: entry k is the one of the SED of
\* component k and entry K + k the one of its morphology, both taken from
\* the source that owns component k.
C27_ConstraintListsPerBlock ==
    /\ Len(blend._proxs_g) = 2 * blend.K
    /\ Len(blend._Ls) = 2 * blend.K
    /\ \A k \in 0..(blend.K - 1) :
        /\ blend._proxs_g[k + 1] = sources[source_of(blend, k)[1] + 1].proxs_g[1]
        /\ blend._Ls[k + 1] = sources[source_of(blend, k)[1] + 1].Ls[1]
        /\ blend._proxs_g[blend.K + k + 1] = sources[source_of(blend, k)[1] + 1].proxs_g[2]
        /\ blend._Ls[blend.K + k + 1] = sources[source_of(blend, k)[1] + 1].Ls[2]

\* C28: the residual cut-out of the morphology update of flat component k
\* is the one made with the box, the shape and the slice of the source m
\* that owns component k.
C28_CutoutOfOwningSource ==
    obs.op = "update_S" =>
        obs.cut = residual_cutout(sources[source_of(blend, obs.k)[1] + 1], obs._model)

\* the cached images of the first l components of source m, summed at the
\* pixel p
RECURSIVE owned_sum(_, _, _)
owned_sum(m, p, l) ==
    IF l = 0 THEN 0
    ELSE obs.cached[component_of(blend, m, l - 1)[1] + 1][p] + owned_sum(m, p, l - 1)
\* C29: in the position update of source m, model_m is the sum of the
\* cached images of the components of source m, inside the source's box.
C29_ModelOfOwnComponents ==
    (obs.op = "_prox_f" /\ obs.cached # <<>>) =>
        \A m \in 1..Len(obs.model_m) :
            obs.model_m[m] # <<>> =>
                \A p \in DOMAIN obs.model_m[m] :
                    obs.model_m[m][p] = owned_sum(m - 1, p, SourceK(sources[m]))

\* C30: after the position update the cached images _models[k] and
\* _model are the ones _compute_model made.
C30_CacheUnchangedByPositions ==
    (obs.op = "_prox_f" /\ obs.cached # <<>>) =>
        /\ obs._models = obs.cached
        /\ obs._model = SumImages(obs.cached, zeros(ImShape))

====
